---- MODULE Spec2Model ----
(***************************************************************************)
(* Plan-Execute-Recover engine of ai-agent-engine.                         *)
(*                                                                         *)
(* One request is followed through run_agent (core/agent.py): planning,    *)
(* validation, run_with_recovery, execute_plan (core/executor.py) with    *)
(* its Dependency State (core/state.py), failure classification           *)
(* (core/failure_classifier.py), replan_gateway (core/replanner.py) and    *)
(* the responder.  External collaborators (the LLM planner, the tools     *)
(* behind run_tool, the LLM responder) answer nondeterministically.        *)
(*                                                                         *)
(* Python strings that are inspected by the code (error messages) are     *)
(* sequences of phrases; the empty string and a None message are both <<>>  *)
(* (the code only tests their truthiness).  Any other None is NULL; a      *)
(* missing step id (failed_step_id = None) is NoStepId.                    *)
(***************************************************************************)
EXTENDS Integers, Sequences, FiniteSets, TLC

VARIABLES
    pc,                 \* position of the request inside run_agent
    max_retries,        \* MAX_RETRIES_PER_STEP in force for this request
    max_replans,        \* MAX_REPLANS_PER_RUN in force for this request
    used_calls,         \* QuotaManager: calls recorded today for MODEL_NAME
    call_limit,         \* QuotaManager: daily call limit for MODEL_NAME
    planner_output,     \* run_agent: what plan_gateway returned
    plan,               \* run_with_recovery: current plan
    retries,            \* run_with_recovery: failed_step_id -> retry count
    replans,            \* run_with_recovery: replan slots consumed
    executor_output,    \* run_with_recovery: last ExecutionResult
    step_index,         \* execute_plan: position in planner_output.steps
    dependency_state,   \* execute_plan: its DependencyState instance, if any
    step_results,       \* execute_plan: per-step records so far
    executed_steps,     \* execute_plan: counter
    resolved_args,      \* _execute_single_step: arguments handed to run_tool
    tool_calls,         \* run_tool invocations of the current Executor run
    timed_out,          \* run_tool: duration > timeout in its last attempt
    sleeps,             \* number of time.sleep calls made for this request
    exec_runs,          \* number of execute_plan calls of this request
    replan_calls,       \* number of replan_gateway calls of this request
    repairs,            \* number of replan_gateway calls that returned a plan
    gateway_calls,      \* number of plan_gateway calls made (plan and replan)
    gateway_returns,    \* ... of which returned a plan
    response,           \* what run_agent returned (or the error it raised)
    call,               \* a function of the engine called on its own: inputs
    call_result         \* ... and what the call returned, once it has

vars == <<pc, max_retries, max_replans, used_calls, call_limit,
          planner_output, plan,
          retries, replans, executor_output, step_index, dependency_state,
          step_results, executed_steps, resolved_args, tool_calls, exec_runs,
          timed_out, sleeps, replan_calls, repairs, gateway_calls, gateway_returns,
          response, call, call_result>>

NULL == "None"

\* failed_step_id / step_id = None (real step ids are >= 1)
NoStepId == 0

\* ------------------------------------------------------------------------
\* Bounds of the model
\* ------------------------------------------------------------------------
MaxSteps == 2          \* longest plan the planning collaborator returns
RetryLimitBound == 2   \* max_retries ranges over 0..RetryLimitBound
ReplanLimitBound == 1  \* max_replans ranges over 0..ReplanLimitBound
CallLimitBound == 3    \* call_limit ranges over 0..CallLimitBound
MaxToolRetries == 2    \* a tool's max_retries ranges over 0..MaxToolRetries

\* ------------------------------------------------------------------------
\* Program constants
\* ------------------------------------------------------------------------
MAX_RETRIES_PER_STEP == 2
MAX_REPLANS_PER_RUN == 1

TOOL_REGISTRY ==
    {"calculator", "text_transform", "datetime", "normalize_datetime",
     "weather", "web_search", "combine_search_results", "extract_from_text"}

FALLBACK_RESPONSES ==
    [skipped |-> "This request is not supported with the current capabilities.",
     failed  |-> "The request could not be completed due to an error."]

QUOTA_MESSAGE == "Daily quota reached. Please try again later or switch models."

\* ------------------------------------------------------------------------
\* Small helpers
\* ------------------------------------------------------------------------
\* dict.get(key, default)
DictGet(d, key, default) == IF key \in DOMAIN d THEN d[key] ELSE default

\* Python truthiness of a message (None and "" are both <<>>)
Truthy(v) == v /= <<>>

Range(s) == {s[i] : i \in DOMAIN s}

EmptyDict == [k \in {} |-> NULL]

Min(S) == CHOOSE x \in S : \A y \in S : x <= y

\* ------------------------------------------------------------------------
\* Plans (tools/schemas.py: Step, PlannerOutput)
\* ------------------------------------------------------------------------
\* A tool_args value that is itself a dict carrying a from_step/from_field key
INLINE_DEPENDENCY == "{from_step: 1}"

Dependency(from_step, from_field, to_arg) ==
    [from_step |-> from_step, from_field |-> from_field, to_arg |-> to_arg]

Step(step_id, instruction, tool_name, tool_args, dependencies) ==
    [step_id |-> step_id, instruction |-> instruction, tool_name |-> tool_name,
     tool_args |-> tool_args, metadata |-> [dependencies |-> dependencies]]

PlannerOutput(plan_status, steps, fail_reason) ==
    [plan_status |-> plan_status, steps |-> steps, fail_reason |-> fail_reason]

\* No plan yet
NO_PLAN == PlannerOutput("unset", <<>>, NULL)

StepDependencies(step) == DictGet(step.metadata, "dependencies", <<>>)

\* The user's query, as the set of lower-cased words the validator looks for
USER_INPUT == {"add", "5", "to", "2 + 2"}

\* ------------------------------------------------------------------------
\* Plan Validator (core/planner_validator.py)
\* ------------------------------------------------------------------------
\* _fail(category, message) without a step
NO_STEP == [step_id |-> NoStepId, tool_name |-> NULL]

_fail(category, step) ==
    [exception |-> "PlannerValidationError", category |-> category,
     step_id |-> step.step_id, tool_name |-> step.tool_name]

\* The check returned without raising
Passed ==
    [exception |-> NULL, category |-> NULL, step_id |-> NoStepId,
     tool_name |-> NULL]

\* An exception of the language leaves the check: KeyError of d["key"],
\* AttributeError of None.split
Uncaught(exception) ==
    [exception |-> exception, category |-> NULL, step_id |-> NoStepId,
     tool_name |-> NULL]

Raised(outcome) == outcome.exception /= NULL

\* First failure of a per-step check, in declaration order of the steps
FirstStepError(p, Check(_, _)) ==
    LET bad == {i \in DOMAIN p.steps : Raised(Check(p, i))}
    IN  IF bad = {} THEN Passed ELSE Check(p, Min(bad))

\* Variant: only duplicate ids are refused, gaps are not
SchemaStepError_duplicates_only(p, i) ==
    LET step == p.steps[i]
    IN  IF \E j \in 1..(i - 1) : p.steps[j].step_id = step.step_id
            THEN _fail("SCHEMA_ERROR", step)
        ELSE IF step.instruction = ""
            THEN _fail("SCHEMA_ERROR", step)
        ELSE IF step.step_id = 1 /\ StepDependencies(step) /= <<>>
            THEN _fail("SCHEMA_ERROR", step)
        ELSE Passed

SchemaStepError(p, i) ==
    LET step == p.steps[i]
    IN  IF \E j \in 1..(i - 1) : p.steps[j].step_id = step.step_id
            THEN _fail("SCHEMA_ERROR", step)
        ELSE IF step.step_id /= i
            THEN _fail("SCHEMA_ERROR", step)
        ELSE IF step.instruction = ""
            THEN _fail("SCHEMA_ERROR", step)
        ELSE IF step.step_id = 1 /\ StepDependencies(step) /= <<>>
            THEN _fail("SCHEMA_ERROR", step)
        ELSE Passed

_validate_schema(p) ==
    IF p.plan_status \notin {"possible", "impossible"}
        THEN _fail("SCHEMA_ERROR", NO_STEP)
    ELSE IF p.plan_status = "impossible"
        THEN IF p.steps /= <<>> THEN _fail("SCHEMA_ERROR", NO_STEP) ELSE Passed
    ELSE IF p.steps = <<>>
        THEN _fail("SCHEMA_ERROR", NO_STEP)
    ELSE FirstStepError(p, SchemaStepError)

\* Variant: fail_reason is looked at for impossible plans only
_validate_fail_reason_impossible_only(p) ==
    IF p.plan_status = "impossible" /\ p.fail_reason = NULL
        THEN _fail("SCHEMA_ERROR", NO_STEP)
        ELSE Passed

_validate_fail_reason(p) ==
    IF p.plan_status = "impossible"
        THEN IF p.fail_reason = NULL THEN _fail("SCHEMA_ERROR", NO_STEP) ELSE Passed
    ELSE IF p.fail_reason /= NULL THEN _fail("SCHEMA_ERROR", NO_STEP) ELSE Passed

_has_dependency(step, to_arg) ==
    \E k \in DOMAIN StepDependencies(step) :
        /\ "to_arg" \in DOMAIN StepDependencies(step)[k]
        /\ StepDependencies(step)[k].to_arg = to_arg

\* any(d["to_arg"] == to_arg ...) meets a record without to_arg before it
\* meets a match: KeyError
HasDependencyRaises(step, to_arg) ==
    LET deps == StepDependencies(step)
    IN  \E k \in DOMAIN deps :
            /\ "to_arg" \notin DOMAIN deps[k]
            /\ \A j \in 1..(k - 1) :
                  "to_arg" \in DOMAIN deps[j] /\ deps[j].to_arg /= to_arg

\* _filter_dependency_placeholders asks _has_dependency for every None value
FilterRaises(step) ==
    \E a \in DOMAIN step.tool_args :
        step.tool_args[a] = NULL /\ HasDependencyRaises(step, a)

_filter_dependency_placeholders(step) ==
    LET kept == {a \in DOMAIN step.tool_args :
                    ~(step.tool_args[a] = NULL /\ _has_dependency(step, a))}
    IN  [a \in kept |-> step.tool_args[a]]

_validate_no_inline_dependencies(step) ==
    IF \E a \in DOMAIN step.tool_args : step.tool_args[a] = INLINE_DEPENDENCY
        THEN _fail("DEPENDENCY_ERROR", step)
        ELSE Passed

DATETIME_OPERATIONS == {"now", "add_days", "day_of_week", "date_diff"}

\* schema.model_validate(filtered_args) of the tools the modelled plans use:
\* CalculatorInput requires expression; DateTimeInput requires operation
\* (one of four literals), every other field is optional. The fields are
\* strings or integers: a dict value is refused.
model_validate(tool_name, filtered_args) ==
    CASE tool_name = "calculator" ->
            /\ "expression" \in DOMAIN filtered_args
            /\ filtered_args["expression"] \notin {NULL, INLINE_DEPENDENCY}
      [] tool_name = "datetime" ->
            /\ "operation" \in DOMAIN filtered_args
            /\ filtered_args["operation"] \in DATETIME_OPERATIONS
            /\ \A a \in DOMAIN filtered_args :
                  filtered_args[a] /= INLINE_DEPENDENCY
      [] OTHER -> TRUE

_validate_calculator(step) ==
    IF DictGet(step.tool_args, "expression", NULL) \in {NULL, ""}
        THEN _fail("ARITHMETIC_ERROR", step)
    ELSE IF StepDependencies(step) /= <<>>
        THEN _fail("ARITHMETIC_ERROR", step)
    ELSE Passed

_validate_datetime(step) ==
    LET op == DictGet(step.tool_args, "operation", NULL)
        present(field) == \/ DictGet(step.tool_args, field, NULL) /= NULL
                          \/ _has_dependency(step, field)
        \* _has_dependency is asked only when the value is None
        raises(field) == /\ DictGet(step.tool_args, field, NULL) = NULL
                         /\ HasDependencyRaises(step, field)
        required == <<"start_datetime", "end_datetime", "unit">>
        bad == {k \in DOMAIN required :
                    \/ HasDependencyRaises(step, required[k])
                    \/ ~present(required[k])}
    IN  IF \E f \in {"base_datetime", "start_datetime", "end_datetime"} :
              DictGet(step.tool_args, f, NULL)
                  \in {"now", "today", "tomorrow", "yesterday"}
            THEN _fail("DATETIME_ERROR", step)
        ELSE IF op = "now" THEN Passed
        ELSE IF op = "add_days"
            THEN IF DictGet(step.tool_args, "days", NULL) = NULL
                     THEN _fail("DATETIME_ERROR", step)
                 ELSE IF raises("base_datetime") THEN Uncaught("KeyError")
                 ELSE IF ~present("base_datetime")
                     THEN _fail("DATETIME_ERROR", step)
                 ELSE Passed
        ELSE IF op = "day_of_week"
            THEN IF raises("base_datetime") THEN Uncaught("KeyError")
                 ELSE IF ~present("base_datetime")
                     THEN _fail("DATETIME_ERROR", step)
                 ELSE Passed
        ELSE IF op = "date_diff"
            THEN IF bad = {} THEN Passed
                 ELSE IF HasDependencyRaises(step, required[Min(bad)])
                     THEN Uncaught("KeyError")
                 ELSE _fail("DATETIME_ERROR", step)
        ELSE _fail("DATETIME_ERROR", step)

\* Variant: the arguments are validated before the inline dependencies are
\* looked for
ToolStepError_shape_first(p, i) ==
    LET step == p.steps[i]
    IN  IF step.tool_name \notin TOOL_REGISTRY
            THEN _fail("TOOL_ERROR", step)
        ELSE IF FilterRaises(step) THEN Uncaught("KeyError")
        ELSE IF ~model_validate(step.tool_name,
                                _filter_dependency_placeholders(step))
            THEN _fail("SCHEMA_ERROR", step)
        ELSE IF Raised(_validate_no_inline_dependencies(step))
            THEN _validate_no_inline_dependencies(step)
        ELSE IF step.tool_name = "datetime" THEN _validate_datetime(step)
        ELSE IF step.tool_name = "calculator" THEN _validate_calculator(step)
        ELSE Passed

ToolStepError(p, i) ==
    LET step == p.steps[i]
    IN  IF step.tool_name \notin TOOL_REGISTRY
            THEN _fail("TOOL_ERROR", step)
        ELSE IF Raised(_validate_no_inline_dependencies(step))
            THEN _validate_no_inline_dependencies(step)
        ELSE IF FilterRaises(step) THEN Uncaught("KeyError")
        ELSE IF ~model_validate(step.tool_name,
                                _filter_dependency_placeholders(step))
            THEN _fail("SCHEMA_ERROR", step)
        ELSE IF step.tool_name = "datetime" THEN _validate_datetime(step)
        ELSE IF step.tool_name = "calculator" THEN _validate_calculator(step)
        ELSE Passed

_validate_tools(p) == FirstStepError(p, ToolStepError)

\* to_arg.split(".", 1)[0] in tool_args; the modelled to_arg values carry no dot
\* to_arg.split(".", 1)[0] on the to_arg values of the modelled plans
ToArgRoot(to_arg) ==
    CASE to_arg = "base_datetime.iso" -> "base_datetime"
      [] to_arg = "start.iso" -> "start"
      [] OTHER -> to_arg

\* Variant: every to_arg is taken to name an argument
_to_arg_root_exists_any(tool_args, to_arg) == TRUE

_to_arg_root_exists(tool_args, to_arg) ==
    ToArgRoot(to_arg) \in DOMAIN tool_args

\* Variant: a dependency on a later step is reported as a schema error
DependencyError_wrong_category(p, step, dep) ==
    IF "from_field" \notin DOMAIN dep THEN Uncaught("KeyError")
    ELSE IF dep.from_field /= "data.value"
        THEN _fail("DEPENDENCY_ERROR", step)
    ELSE IF "from_step" \notin DOMAIN dep
        THEN _fail("DEPENDENCY_ERROR", step)
    ELSE IF dep.from_step \notin {p.steps[j].step_id : j \in DOMAIN p.steps}
        THEN _fail("DEPENDENCY_ERROR", step)
    ELSE IF dep.from_step >= step.step_id
        THEN _fail("SCHEMA_ERROR", step)
    ELSE IF "to_arg" \notin DOMAIN dep THEN Uncaught("AttributeError")
    ELSE IF ~_to_arg_root_exists(step.tool_args, dep.to_arg)
        THEN _fail("DEPENDENCY_ERROR", step)
    ELSE Passed

\* Variant: a dependency may name any step of the plan, later ones included
DependencyError_any_direction(p, step, dep) ==
    IF "from_field" \notin DOMAIN dep THEN Uncaught("KeyError")
    ELSE IF dep.from_field /= "data.value"
        THEN _fail("DEPENDENCY_ERROR", step)
    ELSE IF "from_step" \notin DOMAIN dep
        THEN _fail("DEPENDENCY_ERROR", step)
    ELSE IF dep.from_step \notin {p.steps[j].step_id : j \in DOMAIN p.steps}
        THEN _fail("DEPENDENCY_ERROR", step)
    ELSE IF "to_arg" \notin DOMAIN dep THEN Uncaught("AttributeError")
    ELSE IF ~_to_arg_root_exists(step.tool_args, dep.to_arg)
        THEN _fail("DEPENDENCY_ERROR", step)
    ELSE Passed

\* dep["from_field"] is a lookup, from_step and to_arg are read with .get:
\* a missing from_step is None, which is no step id; a missing to_arg is
\* None, which _to_arg_root_exists cannot split
DependencyError(p, step, dep) ==
    IF "from_field" \notin DOMAIN dep THEN Uncaught("KeyError")
    ELSE IF dep.from_field /= "data.value"
        THEN _fail("DEPENDENCY_ERROR", step)
    ELSE IF "from_step" \notin DOMAIN dep
        THEN _fail("DEPENDENCY_ERROR", step)
    ELSE IF dep.from_step \notin {p.steps[j].step_id : j \in DOMAIN p.steps}
        THEN _fail("DEPENDENCY_ERROR", step)
    ELSE IF dep.from_step >= step.step_id
        THEN _fail("DEPENDENCY_ERROR", step)
    ELSE IF "to_arg" \notin DOMAIN dep THEN Uncaught("AttributeError")
    ELSE IF ~_to_arg_root_exists(step.tool_args, dep.to_arg)
        THEN _fail("DEPENDENCY_ERROR", step)
    ELSE Passed

DependencyStepError(p, i) ==
    LET step == p.steps[i]
        deps == StepDependencies(step)
        bad  == {k \in DOMAIN deps : Raised(DependencyError(p, step, deps[k]))}
    IN  IF bad = {} THEN Passed ELSE DependencyError(p, step, deps[Min(bad)])

_validate_dependencies(p) == FirstStepError(p, DependencyStepError)

\* graph[s.step_id]: the from_step of every dependency of the step
Parents(p, id) ==
    {StepDependencies(p.steps[i])[k].from_step :
        <<i, k>> \in {<<i, k>> \in (DOMAIN p.steps) \X (1..MaxSteps) :
                        /\ p.steps[i].step_id = id
                        /\ k \in DOMAIN StepDependencies(p.steps[i])}}

\* Nodes the depth-first walk enters below the given nodes
RECURSIVE Descend(_, _, _)
Descend(p, ids, fuel) ==
    LET next == ids \cup UNION {Parents(p, id) : id \in ids}
    IN  IF fuel = 0 \/ next = ids THEN ids ELSE Descend(p, next, fuel - 1)

\* dfs meets a node that is still on its stack: some node is below itself
_validate_no_cycles(p) ==
    LET ids == {p.steps[i].step_id : i \in DOMAIN p.steps}
    IN  IF \E id \in ids : id \in Descend(p, Parents(p, id), Len(p.steps))
            THEN _fail("DEPENDENCY_ERROR", NO_STEP)
            ELSE Passed

\* "w in q" for the words the intent checks look for
InQuery(q, words) == q \cap words /= {}

MONTHS == {"january", "february", "march", "april", "may", "june", "july",
           "august", "september", "october", "november", "december"}

has_specific_dates(q) ==
    InQuery(q, MONTHS) \/ InQuery(q, {"today", "tomorrow", "yesterday"})

is_date_difference(q) ==
    /\ \/ ("between" \in q /\ "and" \in q)
       \/ ("from" \in q /\ "to" \in q)
       \/ "until" \in q
       \/ "since" \in q
    /\ has_specific_dates(q)

DATE_WORDS == {"date", "day", "week", "month", "year", "days", "weeks",
               "months", "years", "today", "tomorrow", "yesterday", "monday",
               "tuesday", "wednesday", "thursday", "friday", "saturday",
               "sunday"}

FirstStepWithTool(p, tool_name) ==
    p.steps[Min({i \in DOMAIN p.steps : p.steps[i].tool_name = tool_name})]

HasTool(p, tool_name) ==
    \E i \in DOMAIN p.steps : p.steps[i].tool_name = tool_name

_validate_query_intent(p, q) ==
    IF is_date_difference(q)
        THEN IF HasTool(p, "calculator")
                THEN _fail("INTENT_ERROR", FirstStepWithTool(p, "calculator"))
                ELSE Passed
    ELSE IF /\ InQuery(q, {"how many", "total", "calculate", "sum"})
            /\ ~InQuery(q, DATE_WORDS)
            /\ ~has_specific_dates(q)
            /\ HasTool(p, "datetime")
        THEN _fail("INTENT_ERROR", FirstStepWithTool(p, "datetime"))
    ELSE Passed

_validate_datetime_usage(p, q) ==
    LET is_conversion ==
            \/ /\ "convert" \in q
               /\ InQuery(q, {"hour", "minute", "second", "day", "week"})
            \/ /\ "in" \in q
               /\ InQuery(q, {"hours", "minutes", "seconds"})
    IN  IF is_conversion /\ HasTool(p, "datetime")
            THEN _fail("DATETIME_ERROR", FirstStepWithTool(p, "datetime"))
            ELSE Passed

WebSearchStepError(p, i) ==
    LET step == p.steps[i]
    IN  IF step.tool_name /= "web_search" THEN Passed
        ELSE IF i = Len(p.steps)
            THEN IF Len(p.steps) > 1 THEN _fail("PIPELINE_ERROR", step)
                                     ELSE Passed
        ELSE IF p.steps[i + 1].tool_name /= "combine_search_results"
            THEN _fail("PIPELINE_ERROR", step)
        ELSE Passed

\* weather results must not feed a later calculator step
WeatherStepError(p, i) ==
    LET step == p.steps[i]
        bad  == {j \in (i + 1)..Len(p.steps) :
                    /\ p.steps[j].tool_name = "calculator"
                    /\ \E k \in DOMAIN StepDependencies(p.steps[j]) :
                         StepDependencies(p.steps[j])[k].from_step
                             = step.step_id}
    IN  IF step.tool_name /= "weather" \/ bad = {} THEN Passed
        ELSE _fail("PIPELINE_ERROR", p.steps[Min(bad)])

_validate_pipelines(p) ==
    IF Raised(FirstStepError(p, WebSearchStepError))
        THEN FirstStepError(p, WebSearchStepError)
        ELSE FirstStepError(p, WeatherStepError)

\* The checks in the order validate_plan runs them; the first failure is raised.
\* A later check is only evaluated on a plan the earlier checks accepted
validate_plan(p, user_query) ==
    LET error ==
            IF Raised(_validate_schema(p)) THEN _validate_schema(p)
            ELSE IF Raised(_validate_fail_reason(p))
                THEN _validate_fail_reason(p)
            ELSE IF Raised(_validate_tools(p)) THEN _validate_tools(p)
            ELSE IF Raised(_validate_dependencies(p))
                THEN _validate_dependencies(p)
            ELSE IF Raised(_validate_no_cycles(p))
                THEN _validate_no_cycles(p)
            ELSE IF Raised(_validate_query_intent(p, user_query))
                THEN _validate_query_intent(p, user_query)
            ELSE IF Raised(_validate_datetime_usage(p, user_query))
                THEN _validate_datetime_usage(p, user_query)
            ELSE _validate_pipelines(p)
    IN  IF ~Raised(error)
            THEN [valid |-> TRUE, normalized_plan |-> p, error |-> Passed]
            ELSE [valid |-> FALSE, normalized_plan |-> NO_PLAN, error |-> error]

\* ------------------------------------------------------------------------
\* What the planning collaborator may return (plan_gateway, both modes)
\* ------------------------------------------------------------------------
CalculatorStep(i) ==
    Step(i, "compute", "calculator", [expression |-> "2 + 2"], <<>>)

AddDaysStep(i, j) ==
    Step(i, "shift", "datetime",
         [operation |-> "add_days", days |-> "5", base_datetime |-> NULL],
         <<Dependency(j, "data.value", "base_datetime")>>)

StepChoices(i) == {CalculatorStep(i)} \cup {AddDaysStep(i, j) : j \in 1..(i - 1)}

\* Plans of 1..MaxSteps steps with ids 1..n, each step literal or fed by an
\* earlier step
WellFormedSteps ==
    UNION {{s \in [1..n -> UNION {StepChoices(i) : i \in 1..n}] :
                \A i \in 1..n : s[i] \in StepChoices(i)} : n \in 1..MaxSteps}

ImpossiblePlan == PlannerOutput("impossible", <<>>, "scope_mismatch")

\* Plans with one defect each
DefectivePlans ==
    {PlannerOutput("impossible", <<>>, NULL),
     PlannerOutput("impossible", <<CalculatorStep(1)>>, "logic_gap"),
     PlannerOutput("possible", <<>>, NULL),
     PlannerOutput("possible", <<CalculatorStep(1)>>, "logic_gap"),
     PlannerOutput("possible", <<CalculatorStep(2)>>, NULL),
     PlannerOutput("possible", <<CalculatorStep(1), CalculatorStep(1)>>, NULL),
     PlannerOutput("possible", <<Step(1, "", "calculator",
                                      [expression |-> "2 + 2"], <<>>)>>, NULL),
     PlannerOutput("possible", <<Step(1, "run", "shell",
                                      [command |-> "ls"], <<>>)>>, NULL),
     PlannerOutput("possible", <<Step(1, "compute", "calculator",
                                      [expression |-> INLINE_DEPENDENCY],
                                      <<>>)>>, NULL),
     PlannerOutput("possible", <<AddDaysStep(1, 1)>>, NULL),
     PlannerOutput("possible", <<CalculatorStep(1), AddDaysStep(2, 2)>>, NULL),
     PlannerOutput("possible",
        <<CalculatorStep(1),
          Step(2, "shift", "datetime",
               [operation |-> "add_days", days |-> "5", base_datetime |-> NULL],
               <<Dependency(1, "data", "base_datetime")>>)>>, NULL),
     PlannerOutput("possible",
        <<CalculatorStep(1),
          Step(2, "shift", "datetime",
               [operation |-> "add_days", days |-> "5",
                base_datetime |-> "2026-01-29"],
               <<Dependency(1, "data.value", "start")>>)>>, NULL)}

\* A datetime step whose base_datetime is a literal and whose dependency
\* names a dotted path as to_arg
DottedStep(i, j, to_arg) ==
    Step(i, "shift", "datetime",
         [operation |-> "add_days", days |-> "5",
          base_datetime |-> "2026-01-29"],
         <<Dependency(j, "data.value", to_arg)>>)

\* Two-step plans with a dotted to_arg: its root is a key of tool_args, or
\* it is not
DottedPlans ==
    {PlannerOutput("possible",
                   <<CalculatorStep(1), DottedStep(2, 1, to_arg)>>, NULL) :
        to_arg \in {"base_datetime.iso", "start.iso"}}

\* A calculator step that declares a dependency on step j
CalculatorDepStep(i, j) ==
    Step(i, "compute", "calculator", [expression |-> "2 + 2"],
         <<Dependency(j, "data.value", "expression")>>)

\* Steps with id i whose dependency, if any, names any step of an n-step plan
GraphChoices(i, n) ==
    {CalculatorStep(i)}
        \cup {AddDaysStep(i, j) : j \in 1..n}
        \cup {CalculatorDepStep(i, j) : j \in 1..n}

\* Plans with ids 1..n and arbitrary dependency edges, cyclic ones included
GraphPlans ==
    UNION {{PlannerOutput("possible", s, NULL) :
                s \in {t \in [1..n -> UNION {GraphChoices(i, n) : i \in 1..n}] :
                          \A i \in 1..n : t[i] \in GraphChoices(i, n)}} :
           n \in 1..MaxSteps}

\* Plans of literal steps whose step_ids are any positive integers
IdPlans ==
    UNION {{PlannerOutput("possible", [i \in 1..n |-> CalculatorStep(ids[i])],
                          NULL) : ids \in [1..n -> 1..(MaxSteps + 1)]} :
           n \in 1..MaxSteps}

RawPlans ==
    {PlannerOutput("possible", s, NULL) : s \in WellFormedSteps}
        \cup {ImpossiblePlan} \cup DefectivePlans \cup GraphPlans \cup IdPlans
        \cup DottedPlans

\* The raw plans validate_plan accepts for the request's query, normalized
AcceptedPlans ==
    {validate_plan(raw, USER_INPUT).normalized_plan :
        raw \in {r \in RawPlans : validate_plan(r, USER_INPUT).valid}}

RejectedPlans == {raw \in RawPlans : ~validate_plan(raw, USER_INPUT).valid}

\* ------------------------------------------------------------------------
\* Failure Classifier (core/failure_classifier.py)
\* ------------------------------------------------------------------------
TRANSIENT == "transient"
STRUCTURAL == "structural"
TERMINAL == "terminal"

transient_indicators ==
    {"timeout", "timed out", "connection error", "network error",
     "rate limit", "temporarily unavailable", "service unavailable",
     "502", "503", "504", "connection reset", "connection refused"}

structural_indicators ==
    {"validation error", "schema error", "type error", "dependency error",
     "input should be", "invalid argument", "cannot be parsed",
     "tool not applicable", "wrong tool", "missing required field",
     "unexpected value", "does not match", "field required"}

terminal_indicators ==
    {"impossible", "unsupported", "not supported", "cannot be done",
     "not allowed", "permission denied", "access denied",
     "authentication failed", "unauthorized", "forbidden"}

\* str.lower() on the phrases that occur in the modelled messages
LowerPhrase(x) ==
    CASE x = "Connection" -> "connection"
      [] x = "Timeout" -> "timeout"
      [] x = "Input should be" -> "input should be"
      [] x = "Permission denied" -> "permission denied"
      [] x = "Unknown error" -> "unknown error"
      [] x = "Failed to resolve dependency" -> "failed to resolve dependency"
      [] OTHER -> x

lower(error) == [i \in DOMAIN error |-> LowerPhrase(error[i])]

\* any(indicator in e for indicator in indicators)
Mentions(e, indicators) == \E i \in DOMAIN e : e[i] \in indicators

\* Variant: the terminal indicators are looked for first and the tool name
\* decides the class of an unmatched message
classify_failure_terminal_first(error, tool_name) ==
    IF ~Truthy(error) THEN STRUCTURAL
    ELSE IF Mentions(lower(error), terminal_indicators) THEN TERMINAL
    ELSE IF Mentions(lower(error), transient_indicators) THEN TRANSIENT
    ELSE IF Mentions(lower(error), structural_indicators) THEN STRUCTURAL
    ELSE IF tool_name = "web_search" THEN TRANSIENT
    ELSE STRUCTURAL

\* tool_name is accepted and not read
classify_failure(error, tool_name) ==
    IF ~Truthy(error) THEN STRUCTURAL
    ELSE IF Mentions(lower(error), transient_indicators) THEN TRANSIENT
    ELSE IF Mentions(lower(error), structural_indicators) THEN STRUCTURAL
    ELSE IF Mentions(lower(error), terminal_indicators) THEN TERMINAL
    ELSE STRUCTURAL

\* ------------------------------------------------------------------------
\* Tool Contract (tools/responses.py, app/runner.py seen from the Executor)
\* ------------------------------------------------------------------------
tool_response(tool, success, data, error) ==
    [tool |-> tool, success |-> success,
     data |-> [value |-> data, meta |-> NULL], error |-> error]

\* Error texts a tool may report
TOOL_ERRORS ==
    {<<"Connection", "timeout">>,
     <<"Input should be", "a valid integer">>,
     <<"Permission denied">>}

\* str(e) of the TypeError that leaves run_tool when a failed result carries
\* error = None (runner.py line 161 slices it)
RUN_TOOL_FAULT == <<"'NoneType' object is not subscriptable">>

\* ------------------------------------------------------------------------
\* Tool runner (app/runner.py)
\* ------------------------------------------------------------------------
\* max_retries and deterministic of each registered tool
TOOL_ENTRIES ==
    [t \in TOOL_REGISTRY |->
        [max_retries |->
            CASE t \in {"normalize_datetime", "weather"} -> 1
              [] t = "web_search" -> 2
              [] OTHER -> 0,
         deterministic |->
            t \in {"calculator", "text_transform",
                   "combine_search_results"}]]

\* What one invocation of a handler does: it returns a value, within the
\* tool's timeout or later than that (slow), or it throws
Returns(result, slow) ==
    [kind |-> "returns", result |-> result, slow |-> slow]
Throws(message) == [kind |-> "throws", message |-> message]

\* Values a handler returns: a success, a success whose dict lacks data, a
\* failure with an error text, a failure whose error is None, a failure
\* dict without error, a value without success
HandlerResults(tool_name, errors) ==
    {tool_response(tool_name, TRUE, "2026-01-29", <<>>),
     [tool |-> tool_name, success |-> TRUE],
     tool_response(tool_name, FALSE, NULL, <<>>),
     [tool |-> tool_name, success |-> FALSE],
     [tool |-> tool_name]}
        \cup {tool_response(tool_name, FALSE, NULL, e) : e \in errors}

HandlerOutcomes(tool_name, errors) ==
    {Returns(r, slow) :
        r \in HandlerResults(tool_name, errors), slow \in BOOLEAN}
        \cup {Throws(<<"Unknown error">>)}

\* str(e) of the TimeoutError raised by _execute_single_attempt
TIMEOUT_ERROR == <<"Timeout", "exceeded">>
INVALID_RESPONSE_ERROR == <<"Tool returned invalid response format">>
INPUT_VALIDATION_ERROR == <<"Input validation failed">>
UNKNOWN_TOOL_ERROR == <<"Unknown tool">>
EXHAUSTED_ERROR == <<"Exhausted", "attempts">>

\* meta = {"attempt": attempt, "duration_ms": ...} of a caught fault
AttemptMeta(attempt) == ToString(attempt)

WithMeta(result, meta) == [result EXCEPT !.data.meta = meta]

_is_valid_response(result) == "success" \in DOMAIN result

_is_tool_declared_failure(result) ==
    /\ "success" \in DOMAIN result
    /\ result.success = FALSE
    /\ "error" \in DOMAIN result

\* Variant: a late return is passed on as it is
_execute_single_attempt_untimed(tool_name, outcome, attempt) ==
    IF outcome.kind = "throws"
      THEN WithMeta(tool_response(tool_name, FALSE, NULL,
                                  outcome.message),
                    AttemptMeta(attempt))
    ELSE IF ~_is_valid_response(outcome.result)
      THEN tool_response(tool_name, FALSE, NULL, INVALID_RESPONSE_ERROR)
    ELSE outcome.result

\* One attempt: a fault of the handler and a late return both become a
\* failure result inside the except branch (runner.py 214-258)
_execute_single_attempt(tool_name, outcome, attempt) ==
    IF outcome.kind = "throws"
      THEN WithMeta(tool_response(tool_name, FALSE, NULL,
                                  outcome.message),
                    AttemptMeta(attempt))
    ELSE IF outcome.slow
      THEN WithMeta(tool_response(tool_name, FALSE, NULL, TIMEOUT_ERROR),
                    AttemptMeta(attempt))
    ELSE IF ~_is_valid_response(outcome.result)
      THEN tool_response(tool_name, FALSE, NULL, INVALID_RESPONSE_ERROR)
    ELSE outcome.result

NO_TOOL_RESULT == [tool |-> NULL]

\* _apply_backoff runs between two attempts
Sleeps(invocations) == IF invocations = 0 THEN 0 ELSE invocations - 1

\* What run_tool hands to its caller, with the number of times the handler
\* was invoked and the number of backoff sleeps
RunToolReturn(result, invocations) ==
    [raised |-> FALSE, exception |-> NULL, result |-> result,
     invocations |-> invocations, backoffs |-> Sleeps(invocations)]
RunToolRaise(exception, invocations) ==
    [raised |-> TRUE, exception |-> exception, result |-> NO_TOOL_RESULT,
     invocations |-> invocations, backoffs |-> Sleeps(invocations)]

\* The for loop of _execute_with_retries from `attempt` on; behaviour[n] is
\* what the n-th invocation of the handler does. The warning logged for a
\* declared failure slices result["error"], which raises TypeError when
\* the error is None (written <<>>, as in the result of a success)
RECURSIVE AttemptLoop(_, _, _, _)
AttemptLoop(tool_name, tool_entry, behaviour, attempt) ==
    LET attempts_allowed == IF tool_entry.deterministic THEN 1
                            ELSE tool_entry.max_retries + 1
        result == _execute_single_attempt(tool_name, behaviour[attempt],
                                          attempt)
    IN  IF attempt > attempts_allowed
          THEN RunToolReturn(tool_response(tool_name, FALSE, NULL,
                                           EXHAUSTED_ERROR), attempt - 1)
        ELSE IF result.success THEN RunToolReturn(result, attempt)
        ELSE IF _is_tool_declared_failure(result)
          THEN IF result.error = <<>>
                 THEN RunToolRaise("TypeError", attempt)
                 ELSE RunToolReturn(result, attempt)
        ELSE IF tool_entry.deterministic \/ attempt >= attempts_allowed
          THEN RunToolReturn(result, attempt)
        ELSE AttemptLoop(tool_name, tool_entry, behaviour, attempt + 1)

_execute_with_retries(tool_name, tool_entry, behaviour) ==
    AttemptLoop(tool_name, tool_entry, behaviour, 1)

\* The handler does the same at every invocation
Always(outcome) == [n \in 1..(MaxToolRetries + 1) |-> outcome]

\* input_valid: whether schema(**tool_args) accepts the arguments
run_tool(tool_name, tool_entry, input_valid, behaviour) ==
    IF tool_name \notin TOOL_REGISTRY
      THEN RunToolReturn(tool_response(tool_name, FALSE, NULL,
                                       UNKNOWN_TOOL_ERROR), 0)
    ELSE IF ~input_valid
      THEN RunToolReturn(tool_response(tool_name, FALSE, NULL,
                                       INPUT_VALIDATION_ERROR), 0)
    ELSE _execute_with_retries(tool_name, tool_entry, behaviour)

\* ------------------------------------------------------------------------
\* Dependency State (core/state.py)
\* ------------------------------------------------------------------------
\* Variant: execute_plan goes on with the state of the run before
DependencyState_reused ==
    [instance |-> TRUE, _state |-> dependency_state._state]

\* No DependencyState instance exists / DependencyState()
NO_DEPENDENCY_STATE == [instance |-> FALSE, _state |-> EmptyDict]
DependencyState == [instance |-> TRUE, _state |-> EmptyDict]

SetItem(d, key, value) ==
    [k \in DOMAIN d \cup {key} |-> IF k = key THEN value ELSE d[k]]

\* Variant: the output is not kept
store_dropped(self, step_id, output) == self

store(self, step_id, output) ==
    [self EXCEPT !._state = SetItem(self._state, step_id, output)]

\* Variant: the loop runs over the dependencies from the last to the first,
\* so the first dependency naming a to_arg is the one that stays
RECURSIVE ResolveLoop_first_wins(_, _, _)
ResolveLoop_first_wins(_state, resolved, dependencies) ==
    IF dependencies = <<>>
        THEN [raised |-> FALSE, resolved |-> resolved, error |-> <<>>]
    ELSE LET dep == Head(dependencies)
             rest == ResolveLoop_first_wins(_state, resolved,
                                            Tail(dependencies))
         IN  IF \/ dep.from_step \notin DOMAIN _state
                \/ "data" \notin DOMAIN _state[dep.from_step]
                \/ "value" \notin DOMAIN _state[dep.from_step]["data"]
                 THEN [raised |-> TRUE, resolved |-> resolved,
                       error |-> <<"not executed or not found in state">>]
             ELSE IF rest.raised THEN rest
             ELSE [rest EXCEPT !.resolved =
                      SetItem(rest.resolved, dep.to_arg,
                              _state[dep.from_step]["data"]["value"])]

\* The for-loop of resolve_dependencies over the remaining dependencies
RECURSIVE ResolveLoop(_, _, _)
ResolveLoop(_state, resolved, dependencies) ==
    IF dependencies = <<>>
        THEN [raised |-> FALSE, resolved |-> resolved, error |-> <<>>]
    ELSE LET dep == Head(dependencies)
         IN  IF dep.from_step \notin DOMAIN _state
                 THEN [raised |-> TRUE, resolved |-> resolved,
                       error |-> <<"not executed or not found in state">>]
             ELSE IF "data" \notin DOMAIN _state[dep.from_step]
                 THEN [raised |-> TRUE, resolved |-> resolved,
                       error |-> <<"output missing 'data' field">>]
             ELSE IF "value" \notin DOMAIN _state[dep.from_step]["data"]
                 THEN [raised |-> TRUE, resolved |-> resolved,
                       error |-> <<"output missing 'data.value' field">>]
             ELSE ResolveLoop(
                    _state,
                    SetItem(resolved, dep.to_arg,
                            _state[dep.from_step]["data"]["value"]),
                    Tail(dependencies))

\* Variant: the injections are written into the caller's dict
ToolArgsAfterResolve_in_place(tool_args, resolved) == resolved

\* The caller's tool_args dict after the call: resolved is a copy
\* (dict(tool_args)), so the injections do not reach it
ToolArgsAfterResolve(tool_args, resolved) == tool_args

\* raised: a KeyError left the call; resolved: the returned dict;
\* tool_args: the dict that was passed in, as it is after the call
resolve_dependencies(self, tool_args, dependencies) ==
    LET r == ResolveLoop(self._state, tool_args, dependencies)
    IN  [raised |-> r.raised, resolved |-> r.resolved, error |-> r.error,
         tool_args |-> ToolArgsAfterResolve(tool_args, r.resolved)]

\* ------------------------------------------------------------------------
\* Executor (core/executor.py): result builders
\* ------------------------------------------------------------------------
ExecutionResult(execution_status, results, executed, metadata) ==
    [execution_status |-> execution_status, step_results |-> results,
     executed_steps |-> executed, metadata |-> metadata]

\* execute_plan has not returned yet
NO_RESULT == ExecutionResult("unset", <<>>, 0, EmptyDict)

_create_skipped_result ==
    ExecutionResult("skipped", <<>>, 0, [reason |-> "plan_impossible"])

\* Variant: the entry of the failed step is left out of the result
_create_failed_result_without_entry(results, executed, failed_step, error) ==
    ExecutionResult("failed", SubSeq(results, 1, Len(results) - 1),
        executed - 1,
        [failed_step_id |-> failed_step.step_id,
         failed_tool |-> failed_step.tool_name,
         error |-> IF Truthy(error) THEN error ELSE <<"Unknown error">>])

_create_failed_result(results, executed, failed_step, error) ==
    ExecutionResult("failed", results, executed,
        [failed_step_id |-> failed_step.step_id,
         failed_tool |-> failed_step.tool_name,
         error |-> IF Truthy(error) THEN error ELSE <<"Unknown error">>])

CompletedResult(results, executed) ==
    ExecutionResult("completed", results, executed,
                    [duration_seconds |-> "elapsed"])

\* Variant: the handlers return without the results gathered so far
FaultResult_drops_results(results, executed, error, error_type) ==
    ExecutionResult("failed", <<>>, 0,
        [error |-> error, error_type |-> error_type,
         duration_seconds |-> "elapsed"])

\* except DependencyResolutionError / except Exception of execute_plan
FaultResult(results, executed, error, error_type) ==
    ExecutionResult("failed", results, executed,
        [error |-> error, error_type |-> error_type,
         duration_seconds |-> "elapsed"])

\* Variant: the short-circuit is missing
IsImpossible_never(p) == FALSE

\* if planner_output.plan_status == "impossible"
IsImpossible(p) == p.plan_status = "impossible"

\* Variant: the loop over the steps goes on after a failed step
StopsAtFailure_never(step_result) == FALSE

\* if not step_result["success"]: return the failed result
StopsAtFailure(step_result) == ~step_result.success

\* ------------------------------------------------------------------------
\* Recovery Loop (core/agent.py): decisions
\* ------------------------------------------------------------------------
\* Variant: the quota is never looked at
can_call_always == TRUE

can_call == used_calls < call_limit

\* No run of the loop can exceed this count: the first run, one more per
\* retry of each failed_step_id (a step id or None), one more per repair
RunBound == 1 + RetryLimitBound * (MaxSteps + 1) + ReplanLimitBound

_get_tool_name(p, step_id) ==
    IF step_id = NoStepId THEN NULL
    ELSE IF \E i \in DOMAIN p.steps : p.steps[i].step_id = step_id
        THEN p.steps[Min({i \in DOMAIN p.steps :
                            p.steps[i].step_id = step_id})].tool_name
    ELSE NULL

\* error = executor_output.metadata.get("error", "")
ResultError(result) == DictGet(result.metadata, "error", <<>>)

\* failed_step_id = executor_output.metadata.get("failed_step_id")
ResultFailedStep(result) ==
    DictGet(result.metadata, "failed_step_id", NoStepId)

\* Variant: the counter of the failed step is created but not incremented
BumpRetries_no_increment(r, failed_step_id) ==
    SetItem(r, failed_step_id, DictGet(r, failed_step_id, 0))

\* retries.setdefault(failed_step_id, 0); retries[failed_step_id] += 1
BumpRetries(r, failed_step_id) ==
    SetItem(r, failed_step_id, DictGet(r, failed_step_id, 0) + 1)

\* Variant: the comparison is strict, one retry is lost
RetryAllowed_strict(count, limit) == count < limit

\* Variant: the comparison is off by one, one retry too many
RetryAllowed_extra(count, limit) == count <= limit + 1

\* if retries[failed_step_id] <= MAX_RETRIES_PER_STEP
RetryAllowed(count, limit) == count <= limit

\* Variant: the comparison is not strict, one repair too many
ReplanAllowed_inclusive(count, limit) == count <= limit

\* if replans < MAX_REPLANS_PER_RUN
ReplanAllowed(count, limit) == count < limit

\* _validate_tools_exist of the replanner
_validate_tools_exist(p) ==
    \A i \in DOMAIN p.steps : p.steps[i].tool_name \in TOOL_REGISTRY

\* No function is called on its own / the call has not returned
NO_CALL == [fn |-> NULL]
NOT_RETURNED == [returned |-> FALSE]

\* ------------------------------------------------------------------------
\* Initial state: a request arrives at run_agent
\* ------------------------------------------------------------------------
Init ==
    /\ pc = "plan"
    /\ max_retries \in 0..RetryLimitBound
    /\ max_replans \in 0..ReplanLimitBound
    /\ used_calls = 0
    /\ call_limit \in 0..CallLimitBound
    /\ planner_output = NO_PLAN
    /\ plan = NO_PLAN
    /\ retries = EmptyDict
    /\ replans = 0
    /\ executor_output = NO_RESULT
    /\ step_index = 0
    /\ dependency_state = NO_DEPENDENCY_STATE
    /\ step_results = <<>>
    /\ executed_steps = 0
    /\ resolved_args = EmptyDict
    /\ tool_calls = <<>>
    /\ exec_runs = 0
    /\ replan_calls = 0
    /\ repairs = 0
    /\ gateway_calls = 0
    /\ gateway_returns = 0
    /\ timed_out = FALSE
    /\ sleeps = 0
    /\ response = NULL
    /\ call = NO_CALL
    /\ call_result = NOT_RETURNED

loop_vars == <<plan, retries, replans>>
run_vars == <<step_index, dependency_state, step_results, executed_steps,
              resolved_args, tool_calls>>
limit_vars == <<max_retries, max_replans, call_limit>>
unit_vars == <<call, call_result>>
count_vars == <<exec_runs, replan_calls, repairs>>
gateway_vars == <<gateway_calls, gateway_returns>>
runner_vars == <<timed_out, sleeps>>

\* ------------------------------------------------------------------------
\* run_agent up to the call of run_with_recovery (agent.py 75-113)
\* ------------------------------------------------------------------------
AgentQuotaStopPlanner ==
    /\ pc = "plan"
    /\ ~can_call
    /\ pc' = "done"
    /\ response' = QUOTA_MESSAGE
    /\ UNCHANGED <<unit_vars, runner_vars,
                   gateway_vars, planner_output, limit_vars,
                   used_calls, loop_vars, executor_output, run_vars,
                   count_vars>>

AgentPlannerFails ==
    /\ pc = "plan"
    /\ can_call
    /\ pc' = "done"
    /\ response' = "raise Exception"
    /\ gateway_calls' = gateway_calls + 1
    /\ UNCHANGED gateway_returns
    /\ UNCHANGED <<unit_vars, runner_vars,
                   planner_output, limit_vars, used_calls,
                   loop_vars, executor_output, run_vars, count_vars>>

\* plan_gateway returns a plan and the call is recorded
AgentPlanReturned ==
    /\ pc = "plan"
    /\ can_call
    /\ planner_output' \in RawPlans
    /\ used_calls' = used_calls + 1
    /\ pc' = "validate"
    /\ gateway_calls' = gateway_calls + 1
    /\ gateway_returns' = gateway_returns + 1
    /\ UNCHANGED <<unit_vars, runner_vars,
                   limit_vars, loop_vars, executor_output,
                   run_vars, count_vars, response>>

\* validate_plan raises PlannerValidationError, run_agent re-raises it
AgentPlanRejected ==
    /\ pc = "validate"
    /\ planner_output \in RejectedPlans
    /\ pc' = "done"
    /\ response' = "raise PlannerValidationError"
    /\ UNCHANGED <<unit_vars, runner_vars,
                   gateway_vars, planner_output, limit_vars,
                   used_calls, loop_vars, executor_output, run_vars,
                   count_vars>>

\* The normalized plan is handed to run_with_recovery; planner_output is not
\* read again
AgentPlanAccepted ==
    /\ pc = "validate"
    /\ planner_output \notin RejectedPlans
    /\ plan' = validate_plan(planner_output, USER_INPUT).normalized_plan
    /\ planner_output' = NO_PLAN
    /\ retries' = EmptyDict
    /\ replans' = 0
    /\ pc' = "execute"
    /\ UNCHANGED <<unit_vars, runner_vars,
                   gateway_vars, limit_vars, used_calls,
                   executor_output, run_vars, count_vars, response>>

\* ------------------------------------------------------------------------
\* execute_plan (executor.py 55-144) and _execute_single_step (151-232)
\* ------------------------------------------------------------------------
ExecuteSkipped ==
    /\ pc = "execute"
    /\ exec_runs < RunBound
    /\ IsImpossible(plan)
    /\ exec_runs' = exec_runs + 1
    /\ executor_output' = _create_skipped_result
    /\ tool_calls' = <<>>
    /\ dependency_state' = NO_DEPENDENCY_STATE
    /\ step_results' = <<>>
    /\ executed_steps' = 0
    /\ step_index' = 0
    /\ resolved_args' = EmptyDict
    /\ pc' = "recover"
    /\ UNCHANGED <<unit_vars, runner_vars,
                   gateway_vars, planner_output, limit_vars,
                   used_calls, loop_vars, replan_calls, repairs, response>>

ExecuteStart ==
    /\ pc = "execute"
    /\ exec_runs < RunBound
    /\ ~IsImpossible(plan)
    /\ exec_runs' = exec_runs + 1
    /\ tool_calls' = <<>>
    /\ dependency_state' = DependencyState
    /\ step_results' = <<>>
    /\ executed_steps' = 0
    /\ resolved_args' = EmptyDict
    /\ IF plan.steps = <<>>
           THEN /\ executor_output' = CompletedResult(<<>>, 0)
                /\ step_index' = 0
                /\ pc' = "recover"
           ELSE /\ executor_output' = NO_RESULT
                /\ step_index' = 1
                /\ pc' = "step"
    /\ UNCHANGED <<unit_vars, runner_vars,
                   gateway_vars, planner_output, limit_vars,
                   used_calls, loop_vars, replan_calls, repairs, response>>

\* The step resolves its dependencies and calls run_tool
StepInvoke ==
    /\ pc = "step"
    /\ LET step == plan.steps[step_index]
           r == resolve_dependencies(dependency_state, step.tool_args,
                                     StepDependencies(step))
       IN  /\ StepDependencies(step) = <<>> \/ ~r.raised
           /\ resolved_args' = IF StepDependencies(step) = <<>>
                                   THEN step.tool_args ELSE r.resolved
           /\ plan' = IF StepDependencies(step) = <<>> THEN plan
                      ELSE [plan EXCEPT
                                !.steps[step_index].tool_args = r.tool_args]
           /\ tool_calls' = Append(tool_calls, step.step_id)
           /\ pc' = "tool"
    /\ UNCHANGED <<unit_vars, runner_vars,
                   gateway_vars, planner_output, limit_vars,
                   used_calls, retries, replans, executor_output, step_index,
                   dependency_state, step_results, executed_steps,
                   count_vars, response>>

\* resolve_dependencies raises KeyError: DependencyResolutionError is caught
\* by execute_plan
StepDependencyFault ==
    /\ pc = "step"
    /\ LET step == plan.steps[step_index]
           r == resolve_dependencies(dependency_state, step.tool_args,
                                     StepDependencies(step))
       IN  /\ StepDependencies(step) /= <<>>
           /\ r.raised
           /\ plan' = [plan EXCEPT
                          !.steps[step_index].tool_args = r.tool_args]
           /\ executor_output' =
                FaultResult(step_results, executed_steps,
                            <<"Failed to resolve dependency">> \o r.error,
                            "dependency_resolution")
           /\ pc' = "recover"
    /\ UNCHANGED <<unit_vars, runner_vars,
                   gateway_vars, planner_output, limit_vars,
                   used_calls, retries, replans, run_vars, count_vars,
                   response>>

\* run_tool raises: caught by except Exception of execute_plan
ToolFault ==
    /\ pc = "tool"
    /\ LET step == plan.steps[step_index]
       IN  \E input_valid \in BOOLEAN,
              outcome \in HandlerOutcomes(step.tool_name, TOOL_ERRORS) :
             LET ran == run_tool(step.tool_name,
                                 TOOL_ENTRIES[step.tool_name],
                                 input_valid, Always(outcome))
             IN  /\ ran.raised
                 /\ timed_out' = (outcome.kind = "returns" /\ outcome.slow)
                 /\ sleeps' = sleeps + ran.backoffs
    /\ executor_output' =
         FaultResult(step_results, executed_steps, RUN_TOOL_FAULT,
                     "unexpected")
    /\ pc' = "recover"
    /\ UNCHANGED <<unit_vars, gateway_vars, planner_output, limit_vars,
                   used_calls, loop_vars, run_vars, count_vars, response>>

\* run_tool returns a result for the step. The tools of the plans that are
\* executed, calculator and datetime, are allowed one attempt
ToolReturn ==
    /\ pc = "tool"
    /\ LET step == plan.steps[step_index]
       IN  \E input_valid \in BOOLEAN,
              outcome \in HandlerOutcomes(step.tool_name, TOOL_ERRORS) :
             LET ran == run_tool(step.tool_name,
                                 TOOL_ENTRIES[step.tool_name],
                                 input_valid, Always(outcome))
                 tool_result == ran.result
                 step_result ==
                    [step_id |-> step.step_id, tool_name |-> step.tool_name,
                     success |-> tool_result.success, data |-> tool_result]
                 results == Append(step_results, step_result)
             IN  /\ ~ran.raised
                 /\ timed_out' = /\ ran.invocations > 0
                                 /\ outcome.kind = "returns"
                                 /\ outcome.slow
                 /\ sleeps' = sleeps + ran.backoffs
                 /\ step_results' = results
                 /\ executed_steps' = executed_steps + 1
                 /\ IF StopsAtFailure(step_result)
                      THEN /\ executor_output' =
                                _create_failed_result(
                                    results, executed_steps + 1, step,
                                    DictGet(tool_result, "error", <<>>))
                           /\ pc' = "recover"
                           /\ UNCHANGED <<dependency_state, step_index>>
                      ELSE /\ dependency_state' =
                                store(dependency_state, step.step_id,
                                      tool_result)
                           /\ IF step_index = Len(plan.steps)
                                THEN /\ executor_output' =
                                          CompletedResult(
                                              results, executed_steps + 1)
                                     /\ pc' = "recover"
                                     /\ UNCHANGED step_index
                                ELSE /\ step_index' = step_index + 1
                                     /\ pc' = "step"
                                     /\ UNCHANGED executor_output
    /\ UNCHANGED <<unit_vars, gateway_vars, planner_output, limit_vars,
                   used_calls, loop_vars, resolved_args, tool_calls,
                   count_vars, response>>

\* ------------------------------------------------------------------------
\* run_with_recovery after execute_plan returned (agent.py 225-315)
\* ------------------------------------------------------------------------
Failed == executor_output.execution_status /= "completed"

\* Variant: a TERMINAL failure is handled by the STRUCTURAL strategy
failure_type_terminal_as_structural ==
    IF classify_failure(ResultError(executor_output), NULL) = TERMINAL
        THEN STRUCTURAL
    ELSE classify_failure(ResultError(executor_output), NULL)

\* failure_type = classify_failure(error=error, tool_name=failed_tool)
failure_type ==
    classify_failure(ResultError(executor_output),
                     _get_tool_name(plan, ResultFailedStep(executor_output)))

\* Success - return immediately
RecoverySuccess ==
    /\ pc = "recover"
    /\ ~Failed
    /\ pc' = "respond"
    /\ UNCHANGED <<unit_vars, runner_vars,
                   gateway_vars, planner_output, limit_vars,
                   used_calls, loop_vars, executor_output, run_vars,
                   count_vars, response>>

\* Strategy 1: TRANSIENT, the same plan is run again
RecoveryRetry ==
    /\ pc = "recover"
    /\ Failed
    /\ failure_type = TRANSIENT
    /\ retries' = BumpRetries(retries, ResultFailedStep(executor_output))
    /\ RetryAllowed(retries'[ResultFailedStep(executor_output)], max_retries)
    /\ pc' = "execute"
    /\ UNCHANGED <<unit_vars, runner_vars,
                   gateway_vars, planner_output, limit_vars,
                   used_calls, plan, replans, executor_output, run_vars,
                   count_vars, response>>

RecoveryRetryExhausted ==
    /\ pc = "recover"
    /\ Failed
    /\ failure_type = TRANSIENT
    /\ retries' = BumpRetries(retries, ResultFailedStep(executor_output))
    /\ ~RetryAllowed(retries'[ResultFailedStep(executor_output)], max_retries)
    /\ pc' = "respond"
    /\ UNCHANGED <<unit_vars, runner_vars,
                   gateway_vars, planner_output, limit_vars,
                   used_calls, plan, replans, executor_output, run_vars,
                   count_vars, response>>

\* Strategy 2: STRUCTURAL, a slot is consumed and replan_gateway is called
RecoveryReplan ==
    /\ pc = "recover"
    /\ Failed
    /\ failure_type = STRUCTURAL
    /\ ReplanAllowed(replans, max_replans)
    /\ replans' = replans + 1
    /\ can_call
    /\ replan_calls' = replan_calls + 1
    /\ pc' = "replan"
    /\ gateway_calls' = gateway_calls + 1
    /\ UNCHANGED gateway_returns
    /\ UNCHANGED <<unit_vars, runner_vars,
                   planner_output, limit_vars, used_calls, plan,
                   retries, executor_output, run_vars, exec_runs, repairs,
                   response>>

\* QuotaExceeded is raised inside the try and caught by except Exception
RecoveryReplanNoQuota ==
    /\ pc = "recover"
    /\ Failed
    /\ failure_type = STRUCTURAL
    /\ ReplanAllowed(replans, max_replans)
    /\ replans' = replans + 1
    /\ ~can_call
    /\ pc' = "respond"
    /\ UNCHANGED <<unit_vars, runner_vars,
                   gateway_vars, planner_output, limit_vars,
                   used_calls, plan, retries, executor_output, run_vars,
                   count_vars, response>>

RecoveryReplanExhausted ==
    /\ pc = "recover"
    /\ Failed
    /\ failure_type = STRUCTURAL
    /\ ~ReplanAllowed(replans, max_replans)
    /\ pc' = "respond"
    /\ UNCHANGED <<unit_vars, runner_vars,
                   gateway_vars, planner_output, limit_vars,
                   used_calls, loop_vars, executor_output, run_vars,
                   count_vars, response>>

\* Strategy 3: TERMINAL
RecoveryTerminal ==
    /\ pc = "recover"
    /\ Failed
    /\ failure_type = TERMINAL
    /\ pc' = "respond"
    /\ UNCHANGED <<unit_vars, runner_vars,
                   gateway_vars, planner_output, limit_vars,
                   used_calls, loop_vars, executor_output, run_vars,
                   count_vars, response>>

\* ------------------------------------------------------------------------
\* replan_gateway returns or raises (replanner.py 52-108, agent.py 284-303)
\* ------------------------------------------------------------------------
\* The raw plans that pass both checks of replan_gateway, normalized
\* Variant: the Replanner hands back whatever the collaborator returned
AcceptedRepairs_unvalidated == RawPlans

AcceptedRepairs ==
    {validate_plan(raw, USER_INPUT).normalized_plan :
        raw \in {r \in RawPlans : /\ _validate_tools_exist(r)
                                  /\ validate_plan(r, USER_INPUT).valid}}

RejectedRepairs ==
    {raw \in RawPlans : ~(/\ _validate_tools_exist(raw)
                          /\ validate_plan(raw, USER_INPUT).valid)}

\* The external planning call raises
ReplanCallFails ==
    /\ pc = "replan"
    /\ pc' = "respond"
    /\ UNCHANGED <<unit_vars, runner_vars,
                   gateway_vars, planner_output, limit_vars,
                   used_calls, loop_vars, executor_output, run_vars,
                   count_vars, response>>

\* Variant: after a rejected repair the loop runs the plan again
ReplanRejected_runs_again ==
    /\ pc = "replan"
    /\ RejectedRepairs /= {}
    /\ pc' = "execute"
    /\ UNCHANGED <<unit_vars, runner_vars,
                   gateway_vars, planner_output, limit_vars,
                   used_calls, loop_vars, executor_output, run_vars,
                   count_vars, response>>

\* Variant: the rejected repair becomes the current plan before the loop
\* returns
ReplanRejected_keeps_repair ==
    /\ pc = "replan"
    /\ plan' \in RejectedRepairs
    /\ pc' = "respond"
    /\ gateway_returns' = gateway_returns + 1
    /\ UNCHANGED gateway_calls
    /\ UNCHANGED <<unit_vars, runner_vars,
                   planner_output, limit_vars, used_calls,
                   retries, replans, executor_output, run_vars, count_vars,
                   response>>

\* The repaired plan fails the tool-existence check or validate_plan
ReplanRejected ==
    /\ pc = "replan"
    /\ RejectedRepairs /= {}
    /\ pc' = "respond"
    /\ gateway_returns' = gateway_returns + 1
    /\ UNCHANGED gateway_calls
    /\ UNCHANGED <<unit_vars, runner_vars,
                   planner_output, limit_vars, used_calls,
                   loop_vars, executor_output, run_vars, count_vars,
                   response>>

\* Variant: the retry counters start again with the repaired plan
ReplanAccepted_resets_retries ==
    /\ pc = "replan"
    /\ plan' \in AcceptedRepairs
    /\ retries' = EmptyDict
    /\ used_calls' = used_calls + 1
    /\ repairs' = repairs + 1
    /\ pc' = "execute"
    /\ gateway_returns' = gateway_returns + 1
    /\ UNCHANGED gateway_calls
    /\ UNCHANGED <<unit_vars, runner_vars,
                   planner_output, limit_vars, replans,
                   executor_output, run_vars, exec_runs, replan_calls,
                   response>>

ReplanAccepted ==
    /\ pc = "replan"
    /\ plan' \in AcceptedRepairs
    /\ used_calls' = used_calls + 1
    /\ repairs' = repairs + 1
    /\ pc' = "execute"
    /\ gateway_returns' = gateway_returns + 1
    /\ UNCHANGED gateway_calls
    /\ UNCHANGED <<unit_vars, runner_vars,
                   planner_output, limit_vars, retries, replans,
                   executor_output, run_vars, exec_runs, replan_calls,
                   response>>

\* ------------------------------------------------------------------------
\* run_agent after run_with_recovery returned (agent.py 115-154),
\* respond (responder.py 51-88)
\* ------------------------------------------------------------------------
\* Variant: the cost entries replace the metadata of the result
WithCost_replaces_metadata(result, keys) ==
    [result EXCEPT !.metadata = [k \in keys |-> "cost"]]

WithCost(result, keys) ==
    [result EXCEPT !.metadata =
        [k \in DOMAIN result.metadata \cup keys |->
            IF k \in keys THEN "cost" ELSE result.metadata[k]]]

AgentQuotaStopResponder ==
    /\ pc = "respond"
    /\ ~can_call
    /\ executor_output' = WithCost(executor_output, {"planner_cost"})
    /\ response' = QUOTA_MESSAGE
    /\ pc' = "done"
    /\ UNCHANGED <<unit_vars, runner_vars,
                   gateway_vars, planner_output, limit_vars,
                   used_calls, loop_vars, run_vars, count_vars>>

\* Texts respond can return for the result
Responses(result) ==
    CASE result.execution_status = "skipped" -> {FALLBACK_RESPONSES.skipped}
      [] result.execution_status = "failed" ->
            {"llm explanation",
             IF ResultFailedStep(result) /= NoStepId
                 THEN "The request failed at step"
                 ELSE FALLBACK_RESPONSES.failed}
      [] OTHER -> {"llm answer", FALLBACK_RESPONSES.failed}

AgentRespond ==
    /\ pc = "respond"
    /\ can_call
    /\ response' \in Responses(executor_output)
    /\ used_calls' = used_calls + 1
    /\ executor_output' =
         WithCost(executor_output,
                  {"planner_cost", "responder_cost", "run_cost"})
    /\ pc' = "done"
    /\ UNCHANGED <<unit_vars, runner_vars,
                   gateway_vars, planner_output, limit_vars,
                   loop_vars, run_vars, count_vars>>

Next ==
    \/ AgentQuotaStopPlanner
    \/ AgentPlannerFails
    \/ AgentPlanReturned
    \/ AgentPlanRejected
    \/ AgentPlanAccepted
    \/ ExecuteSkipped
    \/ ExecuteStart
    \/ StepInvoke
    \/ StepDependencyFault
    \/ ToolFault
    \/ ToolReturn
    \/ RecoverySuccess
    \/ RecoveryRetry
    \/ RecoveryRetryExhausted
    \/ RecoveryReplan
    \/ RecoveryReplanNoQuota
    \/ RecoveryReplanExhausted
    \/ RecoveryTerminal
    \/ ReplanCallFails
    \/ ReplanRejected
    \/ ReplanAccepted
    \/ AgentQuotaStopResponder
    \/ AgentRespond

Spec == Init /\ [][Next]_vars

\* Every blocking call returns: the request keeps moving until run_agent ends
FairSpec == Spec /\ WF_vars(Next)

\* ------------------------------------------------------------------------
\* The functions of the core called on their own: one call, on arguments
\* drawn from bounded sets, outside any request
\* ------------------------------------------------------------------------
MaxDeps == 2
MaxPhrases == 2

\* Outputs a successful step leaves in the Dependency State: two values and
\* a result dict without data
STORED_OUTPUTS ==
    {tool_response("datetime", TRUE, "2026-01-29", <<>>),
     tool_response("datetime", TRUE, "2026-02-03", <<>>),
     [tool |-> "datetime", success |-> TRUE]}

\* DependencyState instances after any number of store calls
DependencyStates ==
    {[instance |-> TRUE, _state |-> d] :
        d \in UNION {[S -> STORED_OUTPUTS] : S \in SUBSET (1..MaxSteps)}}

\* to_arg names: two keys of the step's tool_args and one that is not a key
TO_ARGS == {"base_datetime", "days", "start"}

DependencyLists ==
    UNION {[1..n -> {Dependency(j, "data.value", a) :
                        j \in 1..MaxSteps, a \in TO_ARGS}] : n \in 0..MaxDeps}

ADD_DAYS_ARGS ==
    [operation |-> "add_days", days |-> "5", base_datetime |-> NULL]

ResolveCalls ==
    {[fn |-> "resolve_dependencies", self |-> st, tool_args |-> ADD_DAYS_ARGS,
      dependencies |-> deps] :
        st \in DependencyStates, deps \in DependencyLists}

StoreCalls ==
    {[fn |-> "store", self |-> st, step_id |-> i, output |-> o] :
        st \in DependencyStates, i \in 1..MaxSteps, o \in STORED_OUTPUTS}

\* Phrases an error message is made of: with and without an indicator of
\* each class, in the letter case tools report them
PHRASES ==
    {"timeout", "503", "Input should be", "Permission denied", "unsupported",
     "Connection", "Unknown error"}

ErrorMessages == UNION {[1..n -> PHRASES] : n \in 0..MaxPhrases}

ClassifyCalls ==
    {[fn |-> "classify_failure", error |-> e, tool_name |-> t] :
        e \in ErrorMessages, t \in {NULL} \cup TOOL_REGISTRY}

\* Dependency records that lack one of their three keys
MALFORMED_DEPENDENCIES ==
    {[from_step |-> 1, to_arg |-> "base_datetime"],
     [from_step |-> 1, from_field |-> "data.value"],
     [from_field |-> "data.value", to_arg |-> "base_datetime"]}

\* Plans whose second step declares such a record, its base_datetime being
\* left to the dependency or given as a literal
MalformedDependencyPlans ==
    {PlannerOutput("possible",
        <<CalculatorStep(1),
          Step(2, "shift", "datetime",
               [ADD_DAYS_ARGS EXCEPT !.base_datetime = b], <<dep>>)>>,
        NULL) :
        dep \in MALFORMED_DEPENDENCIES, b \in {NULL, "2026-01-29"}}

\* Plans with defects that different checks report
MultiDefectPlans ==
    {PlannerOutput("possible",
        <<Step(1, "compute", "calculator",
               [expression |-> INLINE_DEPENDENCY], <<>>),
          Step(2, "run", "shell", [command |-> "ls"], <<>>)>>, NULL),
     PlannerOutput("possible",
        <<Step(1, "run", "shell", [command |-> "ls"], <<>>),
          Step(2, "compute", "calculator",
               [expression |-> INLINE_DEPENDENCY], <<>>)>>, NULL),
     PlannerOutput("possible",
        <<Step(1, "compute", "calculator", [expression |-> NULL], <<>>),
          Step(2, "shift", "datetime",
               [ADD_DAYS_ARGS EXCEPT !.days = INLINE_DEPENDENCY],
               <<Dependency(2, "data.value", "base_datetime")>>)>>, NULL),
     PlannerOutput("possible",
        <<Step(1, "", "shell", [command |-> INLINE_DEPENDENCY],
               <<Dependency(1, "data", "text")>>)>>, "logic_gap")}

ValidateCalls ==
    {[fn |-> "validate_plan", plan |-> p, user_query |-> USER_INPUT,
      calls |-> 1] :
        p \in RawPlans \cup MalformedDependencyPlans \cup MultiDefectPlans}

\* Registry entries a tool may have
ToolEntries ==
    [max_retries : 0..MaxToolRetries, deterministic : BOOLEAN]

\* One outcome for each invocation the loop can make
HandlerBehaviours(tool_name) ==
    [1..(MaxToolRetries + 1) ->
        HandlerOutcomes(tool_name, {<<"Permission denied">>})]

RunToolCalls ==
    {[fn |-> "run_tool", tool_name |-> "web_search", tool_entry |-> e,
      input_valid |-> TRUE, behaviour |-> b] :
        e \in ToolEntries, b \in HandlerBehaviours("web_search")}
    \cup {[fn |-> "run_tool", tool_name |-> t, tool_entry |-> e,
            input_valid |-> v,
            behaviour |-> [n \in 1..(MaxToolRetries + 1) |->
                              Throws(<<"Unknown error">>)]] :
            t \in {"web_search", "image_search"}, e \in ToolEntries,
            v \in BOOLEAN}

Calls ==
    ResolveCalls \cup StoreCalls \cup ClassifyCalls \cup ValidateCalls
        \cup RunToolCalls

\* Variant: the validator writes the filtered arguments back into the steps
PlanAfterValidate_filtered(p) ==
    [p EXCEPT !.steps =
        [i \in DOMAIN p.steps |->
            [p.steps[i] EXCEPT
                !.tool_args = _filter_dependency_placeholders(p.steps[i])]]]

\* The caller's plan object after validate_plan: no check assigns to it
PlanAfterValidate(p) == p

UnitInit ==
    /\ pc = "unit"
    /\ max_retries = MAX_RETRIES_PER_STEP
    /\ max_replans = MAX_REPLANS_PER_RUN
    /\ used_calls = 0
    /\ call_limit = 0
    /\ planner_output = NO_PLAN
    /\ plan = NO_PLAN
    /\ retries = EmptyDict
    /\ replans = 0
    /\ executor_output = NO_RESULT
    /\ step_index = 0
    /\ dependency_state = NO_DEPENDENCY_STATE
    /\ step_results = <<>>
    /\ executed_steps = 0
    /\ resolved_args = EmptyDict
    /\ tool_calls = <<>>
    /\ exec_runs = 0
    /\ replan_calls = 0
    /\ repairs = 0
    /\ gateway_calls = 0
    /\ gateway_returns = 0
    /\ timed_out = FALSE
    /\ sleeps = 0
    /\ response = NULL
    /\ call \in Calls
    /\ call_result = NOT_RETURNED

request_vars ==
    <<pc, planner_output, limit_vars, used_calls, loop_vars, executor_output,
      run_vars, count_vars, gateway_vars, runner_vars, response>>

Pending(fn) == pc = "unit" /\ call.fn = fn /\ ~call_result.returned

CallResolveDependencies ==
    /\ Pending("resolve_dependencies")
    /\ call_result' =
         [returned |-> TRUE,
          value |-> resolve_dependencies(call.self, call.tool_args,
                                         call.dependencies)]
    /\ UNCHANGED <<call, request_vars>>

CallStore ==
    /\ Pending("store")
    /\ call_result' =
         [returned |-> TRUE,
          value |-> store(call.self, call.step_id, call.output)]
    /\ UNCHANGED <<call, request_vars>>

CallClassifyFailure ==
    /\ Pending("classify_failure")
    /\ call_result' =
         [returned |-> TRUE,
          value |-> classify_failure(call.error, call.tool_name)]
    /\ UNCHANGED <<call, request_vars>>

\* plan_after: the plan object that was passed in, as it is after the call
CallValidatePlan ==
    /\ Pending("validate_plan")
    /\ call_result' =
         [returned |-> TRUE,
          value |-> validate_plan(call.plan, call.user_query),
          plan_after |-> PlanAfterValidate(call.plan)]
    /\ UNCHANGED <<call, request_vars>>

\* The accepted plan, as the first call left it, is validated again with
\* the same query
CallValidatePlanAgain ==
    /\ pc = "unit" /\ call.fn = "validate_plan" /\ call.calls = 1
    /\ call_result.returned /\ call_result.value.valid
    /\ call' = [fn |-> "validate_plan", plan |-> call_result.plan_after,
                user_query |-> call.user_query, calls |-> 2,
                first |-> call_result.value]
    /\ call_result' =
         [returned |-> TRUE,
          value |-> validate_plan(call_result.plan_after, call.user_query),
          plan_after |-> PlanAfterValidate(call_result.plan_after)]
    /\ UNCHANGED request_vars

CallRunTool ==
    /\ Pending("run_tool")
    /\ call_result' =
         [returned |-> TRUE,
          value |-> run_tool(call.tool_name, call.tool_entry,
                             call.input_valid, call.behaviour)]
    /\ UNCHANGED <<call, request_vars>>

UnitNext ==
    \/ CallRunTool
    \/ CallResolveDependencies
    \/ CallStore
    \/ CallClassifyFailure
    \/ CallValidatePlan
    \/ CallValidatePlanAgain

UnitSpec == UnitInit /\ [][UnitNext]_vars


\* ------------------------------------------------------------------------
\* Properties of the Recovery Loop and of the Executor
\* ------------------------------------------------------------------------
\* run_with_recovery has returned its (executor_output, plan) pair
Returned == pc \in {"respond", "done"}

\* The error class of the result the loop holds
ResultClass == classify_failure(ResultError(executor_output), NULL)

\* Every Executor run so far ended in a TRANSIENT failure at step s: each
\* such run, and no other, adds one to retries[s]
AllRunsTransientAt(s) == DOMAIN retries = {s} /\ retries[s] = exec_runs

\* C1: when every Executor run fails at the same step with a TRANSIENT
\* error, the loop makes exactly max_retries + 1 runs (never more while it
\* is still looping), never calls the Replanner, and returns the last
\* result, which is failed at that step
C1_RetryBound ==
    \A s \in DOMAIN retries :
        AllRunsTransientAt(s) =>
            /\ replan_calls = 0
            /\ replans = 0
            /\ pc \in {"execute", "respond", "done"}
            /\ pc = "execute" => exec_runs <= max_retries
            /\ Returned =>
                  /\ exec_runs = max_retries + 1
                  /\ executor_output.execution_status = "failed"
                  /\ ResultFailedStep(executor_output) = s
                  /\ ResultClass = TRANSIENT

\* With the configured limit, step 1 failed transiently in all three runs and
\* the loop has returned
C1_Witness ==
    /\ pc = "respond"
    /\ max_retries = MAX_RETRIES_PER_STEP
    /\ AllRunsTransientAt(1)
    /\ exec_runs = MAX_RETRIES_PER_STEP + 1

\* The loop returned a structurally failed result under the configured
\* replan limit
ReturnedStructural ==
    /\ pc = "respond"
    /\ max_replans = MAX_REPLANS_PER_RUN
    /\ executor_output.execution_status = "failed"
    /\ ResultClass = STRUCTURAL

C3_RunBoundAsStated == exec_runs <= max_retries * (max_replans + 1)

\* C3 amended: the loop never performs more than
\* 1 + max_retries * K + max_replans Executor runs, K being the number of
\* distinct failed_step_id values that failed transiently (the retry counters
\* are kept per step id for the whole call); every run but the first follows
\* a retry or a repair
C3_RunBound ==
    /\ exec_runs <= 1 + max_retries * Cardinality(DOMAIN retries) + replans
    /\ replans <= max_replans
    /\ \A s \in DOMAIN retries : retries[s] <= max_retries + 1
    /\ exec_runs < RunBound \/ (exec_runs = RunBound /\ pc /= "execute")

\* Under the configured limits the two steps of a plan failed transiently in
\* turn and one repair was made: six runs, more than 2 * (1 + 1)
C3_Witness ==
    /\ max_retries = MAX_RETRIES_PER_STEP
    /\ max_replans = MAX_REPLANS_PER_RUN
    /\ Cardinality(DOMAIN retries) = 2
    /\ exec_runs = 1 + max_retries * 2 + max_replans

\* C4: once run_with_recovery starts its loop it eventually returns, and
\* the result it returns is completed, failed or skipped
C4_Termination ==
    (pc = "execute") ~>
        (/\ pc = "respond"
         /\ executor_output.execution_status \in
                {"completed", "failed", "skipped"})

\* The loop has returned after retries and a repair
C4_Witness ==
    /\ pc = "respond"
    /\ exec_runs >= 3
    /\ retries /= EmptyDict
    /\ repairs >= 1

\* C5: a run that failed with a TERMINAL error makes the loop return that
\* result at once: no retry counter and no replan counter changes, the
\* Replanner is not called, and no Executor run follows the return
C5_TerminalStop ==
    [][/\ (pc = "recover" /\ Failed /\ ResultClass = TERMINAL) =>
            /\ pc' = "respond"
            /\ UNCHANGED <<executor_output, plan, retries, replans,
                           exec_runs, replan_calls, repairs>>
       /\ Returned =>
            /\ pc' = "done"
            /\ UNCHANGED <<plan, retries, replans, exec_runs, replan_calls,
                           repairs, tool_calls>>]_vars

\* The loop returned a result that failed with "Permission denied"
C5_Witness ==
    /\ pc = "respond"
    /\ executor_output.execution_status = "failed"
    /\ ResultClass = TERMINAL
    /\ ResultError(executor_output) = <<"Permission denied">>

\* C6: a retry hands the Executor the plan of the failed run, calls no
\* Replanner and leaves the replan counter alone; the Executor run itself
\* never changes the plan
C6_RetryKeepsPlan ==
    [][/\ (pc = "recover" /\ ResultClass = TRANSIENT /\ pc' = "execute") =>
            UNCHANGED <<plan, replans, replan_calls, repairs>>
       /\ pc \in {"execute", "step", "tool"} => plan' = plan]_vars

\* A retry is about to run again a plan whose second step takes its
\* base_datetime from the first one and has failed transiently
C6_Witness ==
    /\ pc = "execute"
    /\ DOMAIN retries = {2}
    /\ replans = 0
    /\ Len(plan.steps) = 2
    /\ StepDependencies(plan.steps[2]) /= <<>>

\* C7: when the Replanner fails (no repaired plan is delivered) the loop
\* returns the failed result it held, with no further Executor run and no
\* further Replanner call, and the attempt has consumed a replan slot
C7_FailedReplan ==
    [][(pc = "replan" /\ repairs' = repairs) =>
            /\ pc' = "respond"
            /\ Failed
            /\ replans = repairs + 1
            /\ UNCHANGED <<executor_output, plan, retries, replans,
                           exec_runs, replan_calls, used_calls>>]_vars

\* The Replanner was called once, delivered nothing, and the loop returned
\* the result of the only run
C7_Witness ==
    /\ pc = "respond"
    /\ replan_calls = 1
    /\ repairs = 0
    /\ replans = 1
    /\ exec_runs = 1
    /\ executor_output.execution_status = "failed"

\* The tool invocations of the current Executor run
RunInProgressOrOver == pc \in {"step", "tool", "recover", "replan",
                               "respond", "done"}

\* C8: in a run the tool invocations are a prefix of the plan's steps, in
\* order and once each; a step is invoked only after every earlier step
\* returned successfully, and nothing is invoked after a failed step
C8_SequentialInvariant ==
    RunInProgressOrOver =>
        /\ Len(tool_calls) <= Len(plan.steps)
        /\ \A i \in DOMAIN tool_calls :
              /\ tool_calls[i] = plan.steps[i].step_id
              /\ \A j \in 1..(i - 1) :
                    /\ j \in DOMAIN step_results
                    /\ step_results[j].success
        /\ Len(step_results) <= Len(tool_calls)
        /\ Len(tool_calls) <= Len(step_results) + 1
        /\ \A i \in DOMAIN step_results :
              /\ step_results[i].step_id = tool_calls[i]
              /\ ~step_results[i].success => Len(tool_calls) = i

\* The first step of a two-step plan failed and the run ended there
C8_Witness ==
    /\ pc = "recover"
    /\ Len(plan.steps) = 2
    /\ tool_calls = <<1>>
    /\ Len(step_results) = 1
    /\ ~step_results[1].success

\* C9: execute_plan on an impossible plan returns skipped with
\* executed_steps = 0 and no step results, creates no Dependency State and
\* invokes no tool
C9_ImpossibleShortCircuit ==
    (pc = "recover" /\ plan.plan_status = "impossible") =>
        /\ executor_output.execution_status = "skipped"
        /\ executor_output.executed_steps = 0
        /\ executor_output.step_results = <<>>
        /\ dependency_state = NO_DEPENDENCY_STATE
        /\ tool_calls = <<>>

\* The run of an impossible plan has returned
C9_Witness ==
    /\ pc = "recover"
    /\ plan.plan_status = "impossible"
    /\ exec_runs = 1
    /\ executor_output = _create_skipped_result

\* C10 as stated: the skipped result of the impossible initial plan is
\* neither retried nor replanned: the loop returns it, the planning
\* collaborator is not called again, and the plan stays the impossible one
C10_ImpossibleRequestAsStated ==
    [][(/\ pc = "recover"
        /\ exec_runs = 1
        /\ executor_output.execution_status = "skipped") =>
            /\ pc' = "respond"
            /\ UNCHANGED <<executor_output, plan, retries, replans,
                           replan_calls>>]_vars


\* ------------------------------------------------------------------------
\* Properties of the Plan Validator
\* ------------------------------------------------------------------------
\* The dependency edges of a plan: from a step's id to the from_step of each
\* of its dependencies
Edges(p) ==
    UNION {{<<p.steps[i].step_id, StepDependencies(p.steps[i])[k].from_step>> :
                k \in DOMAIN StepDependencies(p.steps[i])} :
           i \in DOMAIN p.steps}

\* A path of at most n + 1 edges leads from a to b
RECURSIVE PathExists(_, _, _, _)
PathExists(E, a, b, n) ==
    \/ <<a, b>> \in E
    \/ /\ n > 0
       /\ \E e \in E : e[1] = a /\ PathExists(E, e[2], b, n - 1)

HasCycle(p) ==
    \E e \in Edges(p) : PathExists(Edges(p), e[1], e[1], Cardinality(Edges(p)))

\* The verdict of validate_plan on what plan_gateway returned
Verdict == validate_plan(planner_output, USER_INPUT)

\* The checks that validate_plan runs before _validate_dependencies accept
\* the plan
PassesEarlierChecks(p) ==
    /\ ~Raised(_validate_schema(p))
    /\ ~Raised(_validate_fail_reason(p))
    /\ ~Raised(_validate_tools(p))

\* C11 as stated: every plan whose dependency graph has a cycle fails
\* validation with category DEPENDENCY_ERROR
C11_AcyclicityAsStated ==
    (pc = "validate" /\ HasCycle(planner_output)) =>
        /\ ~Verdict.valid
        /\ Verdict.error.category = "DEPENDENCY_ERROR"

\* C11 amended: every plan whose dependency graph has a cycle fails
\* validation and run_agent raises without any Executor run; the category is
\* DEPENDENCY_ERROR when the plan passes the schema, fail_reason and tool
\* checks that run first, and SCHEMA_ERROR when the ids are sequential and
\* step 1 declares a dependency; no plan the Executor is given has a cycle
C11_Acyclicity ==
    /\ (pc = "validate" /\ HasCycle(planner_output)) =>
          /\ ~Verdict.valid
          /\ planner_output \in RejectedPlans
          /\ PassesEarlierChecks(planner_output) =>
                Verdict.error.category = "DEPENDENCY_ERROR"
          /\ (/\ \A i \in DOMAIN planner_output.steps :
                    planner_output.steps[i].step_id = i
              /\ StepDependencies(planner_output.steps[1]) /= <<>>) =>
                Verdict.error.category = "SCHEMA_ERROR"
    /\ (pc = "done" /\ HasCycle(planner_output)) =>
          /\ response = "raise PlannerValidationError"
          /\ exec_runs = 0
          /\ tool_calls = <<>>
    /\ ~HasCycle(plan)

\* run_agent has rejected a plan whose second step depends on itself, all
\* earlier checks having passed
C11_Witness ==
    /\ pc = "done"
    /\ response = "raise PlannerValidationError"
    /\ Len(planner_output.steps) = 2
    /\ <<2, 2>> \in Edges(planner_output)
    /\ PassesEarlierChecks(planner_output)


\* The step_ids are 1, 2, ..., n in declaration order
SequentialIds(p) == \A i \in DOMAIN p.steps : p.steps[i].step_id = i

\* C12: a possible plan whose step_ids are not exactly 1..n in declaration
\* order fails validation with a schema error and run_agent raises without
\* an Executor run; every plan the Executor is given has the ids 1..n
C12_SequentialIds ==
    /\ (/\ pc = "validate"
        /\ planner_output.plan_status = "possible"
        /\ ~SequentialIds(planner_output)) =>
          /\ ~Verdict.valid
          /\ Verdict.error.category = "SCHEMA_ERROR"
          /\ planner_output \in RejectedPlans
    /\ (pc = "done" /\ ~SequentialIds(planner_output)) =>
          /\ response = "raise PlannerValidationError"
          /\ exec_runs = 0
    /\ SequentialIds(plan)

\* run_agent has rejected a plan with the step ids 1, 3
C12_Witness ==
    /\ pc = "done"
    /\ response = "raise PlannerValidationError"
    /\ Len(planner_output.steps) = 2
    /\ planner_output.steps[1].step_id = 1
    /\ planner_output.steps[2].step_id = 3


\* ------------------------------------------------------------------------
\* Properties of the functions called on their own
\* ------------------------------------------------------------------------
\* The call of fn has returned
Done(fn) == pc = "unit" /\ call.fn = fn /\ call_result.returned

\* The stored output of from_step carries data.value
HasValue(self, from_step) ==
    /\ from_step \in DOMAIN self._state
    /\ "data" \in DOMAIN self._state[from_step]
    /\ "value" \in DOMAIN self._state[from_step]["data"]

StoredValue(self, from_step) == self._state[from_step]["data"]["value"]

ToArgs(dependencies) ==
    {dependencies[i].to_arg : i \in DOMAIN dependencies}

\* Position of the last dependency of the list that names to_arg
LastFor(dependencies, to_arg) ==
    CHOOSE i \in DOMAIN dependencies :
        /\ dependencies[i].to_arg = to_arg
        /\ \A j \in DOMAIN dependencies :
              dependencies[j].to_arg = to_arg => j <= i

\* C13 as stated: when resolve_dependencies returns, for each dependency
\* the key to_arg of the returned dict holds the data.value stored for
\* from_step, every other argument keeps its value and the tool_args passed
\* in is as it was.
C13_ResolutionAsStated ==
    (Done("resolve_dependencies") /\ ~call_result.value.raised) =>
        LET deps == call.dependencies
            resolved == call_result.value.resolved
        IN  /\ \A i \in DOMAIN deps :
                  /\ deps[i].to_arg \in DOMAIN resolved
                  /\ resolved[deps[i].to_arg] =
                        StoredValue(call.self, deps[i].from_step)
            /\ \A k \in DOMAIN call.tool_args \ ToArgs(deps) :
                  resolved[k] = call.tool_args[k]
            /\ call_result.value.tool_args = call.tool_args

\* C13: resolve_dependencies raises exactly when some dependency names a
\* from_step without a stored data.value; otherwise it returns a dict whose
\* keys are those of tool_args plus every to_arg, in which each to_arg holds
\* the data.value stored for the from_step of the LAST dependency naming that
\* to_arg and every other argument keeps its value. In both cases the
\* tool_args passed in is as it was.
C13_Resolution ==
    Done("resolve_dependencies") =>
        LET deps == call.dependencies
            resolved == call_result.value.resolved
        IN  /\ call_result.value.raised <=>
                  \E i \in DOMAIN deps :
                      ~HasValue(call.self, deps[i].from_step)
            /\ call_result.value.tool_args = call.tool_args
            /\ ~call_result.value.raised =>
                  /\ DOMAIN resolved = DOMAIN call.tool_args \cup ToArgs(deps)
                  /\ \A a \in ToArgs(deps) :
                        resolved[a] =
                            StoredValue(call.self,
                                        deps[LastFor(deps, a)].from_step)
                  /\ \A k \in DOMAIN call.tool_args \ ToArgs(deps) :
                        resolved[k] = call.tool_args[k]

\* Two dependencies give different stored values to the same to_arg and the
\* call has returned the dict with the second one
C13_Witness ==
    /\ Done("resolve_dependencies") /\ ~call_result.value.raised
    /\ Len(call.dependencies) = 2
    /\ call.dependencies[1].to_arg = "base_datetime"
    /\ call.dependencies[2].to_arg = "base_datetime"
    /\ StoredValue(call.self, call.dependencies[1].from_step) = "2026-01-29"
    /\ call_result.value.resolved["base_datetime"] = "2026-02-03"
    /\ call_result.value.resolved["days"] = "5"


\* The message, lower-cased, contains a keyword of the set
Contains(error, keywords) ==
    \E i \in DOMAIN error : LowerPhrase(error[i]) \in keywords

\* C14: classify_failure returns TRANSIENT if the lower-cased message
\* contains a transient keyword, otherwise STRUCTURAL if it contains a
\* structural keyword, otherwise TERMINAL if it contains a terminal keyword,
\* and STRUCTURAL for an empty message or one matching no keyword; the
\* result is the same for every tool_name.
C14_Classification ==
    Done("classify_failure") =>
        /\ Contains(call.error, transient_indicators)
              => call_result.value = TRANSIENT
        /\ (/\ ~Contains(call.error, transient_indicators)
            /\ Contains(call.error, structural_indicators))
              => call_result.value = STRUCTURAL
        /\ (/\ ~Contains(call.error, transient_indicators)
            /\ ~Contains(call.error, structural_indicators)
            /\ Contains(call.error, terminal_indicators))
              => call_result.value = TERMINAL
        /\ (/\ ~Contains(call.error, transient_indicators)
            /\ ~Contains(call.error, structural_indicators)
            /\ ~Contains(call.error, terminal_indicators))
              => call_result.value = STRUCTURAL
        /\ call.error = <<>> => call_result.value = STRUCTURAL
        /\ \A t \in {NULL} \cup TOOL_REGISTRY :
              classify_failure(call.error, t) = call_result.value

\* A message with a terminal and a transient keyword, written with a capital
\* letter, was classified for the web_search tool as TRANSIENT
C14_Witness ==
    /\ Done("classify_failure")
    /\ call.error = <<"Permission denied", "timeout">>
    /\ call.tool_name = "web_search"
    /\ call_result.value = TRANSIENT


C16_WriteOnceAsStated ==
    (Done("store") /\ call.step_id \in DOMAIN call.self._state) =>
        /\ call.step_id \in DOMAIN call_result.value._state
        /\ call_result.value._state[call.step_id] =
              call.self._state[call.step_id]


\* ------------------------------------------------------------------------
\* Properties of one Executor run
\* ------------------------------------------------------------------------
\* execute_plan has just returned to run_with_recovery
ExecuteReturned == pc = "recover"

\* C17 as stated: when execute_plan returns, the Dependency State of the
\* run holds, for every step whose tool returned a result, that full
\* result under the step's id, the failed step included.
C17_RecordsEveryResultAsStated ==
    (ExecuteReturned /\ dependency_state.instance) =>
        \A i \in DOMAIN step_results :
            /\ step_results[i].step_id \in DOMAIN dependency_state._state
            /\ dependency_state._state[step_results[i].step_id] =
                  step_results[i].data

\* Ids of the steps of the current run whose tool reported success
SucceededIds ==
    {step_results[i].step_id :
        i \in {j \in DOMAIN step_results : step_results[j].success}}

\* C18: during and after every Executor run the Dependency State holds
\* exactly the outputs of the steps that succeeded in THAT run (so it is
\* empty when the first step starts, whether the run is the first, a retry
\* or follows a replan), and the arguments a step is invoked with carry, for
\* each dependency, the value produced by from_step in the same run.
C18_FreshState ==
    (pc \in {"step", "tool", "recover"} /\ dependency_state.instance) =>
        /\ DOMAIN dependency_state._state = SucceededIds
        /\ \A i \in DOMAIN step_results :
              step_results[i].success =>
                  dependency_state._state[step_results[i].step_id] =
                      step_results[i].data
        /\ pc = "step" /\ step_index = 1 =>
              dependency_state._state = EmptyDict
        /\ pc = "tool" =>
              LET deps == StepDependencies(plan.steps[step_index])
              IN  \A d \in DOMAIN deps :
                      \E i \in DOMAIN step_results :
                          /\ step_results[i].step_id = deps[d].from_step
                          /\ step_results[i].success
                          /\ resolved_args[deps[d].to_arg] =
                                step_results[i].data["data"]["value"]

\* A later run (a retry or the run of a repaired plan) invokes its second
\* step with the date its own first step produced
C18_Witness ==
    /\ pc = "tool" /\ exec_runs >= 2 /\ step_index = 2
    /\ StepDependencies(plan.steps[2]) /= <<>>
    /\ DOMAIN dependency_state._state = {1}
    /\ resolved_args["base_datetime"] = "2026-01-29"

\* execute_plan has returned after the tool of the step it ran last
\* reported failure
ToolFailureReturned ==
    /\ ExecuteReturned
    /\ step_results /= <<>>
    /\ ~step_results[Len(step_results)].success

\* The error text of the tool result of step k (none: the empty text)
ToolErrorText(k) == DictGet(step_results[k].data, "error", <<>>)

\* The result is failed and its entries are those of steps 1..k in order,
\* all successful but the last
PartialResults(k) ==
    /\ executor_output.execution_status = "failed"
    /\ executor_output.executed_steps = k
    /\ Len(executor_output.step_results) = k
    /\ \A i \in 1..k : executor_output.step_results[i].step_id = i
    /\ \A i \in 1..(k - 1) : executor_output.step_results[i].success
    /\ ~executor_output.step_results[k].success
    /\ executor_output.metadata.failed_step_id = k

C20_FailedMetadataAsStated ==
    (ExecuteReturned /\ executor_output.execution_status = "failed") =>
        /\ "failed_step_id" \in DOMAIN executor_output.metadata
        /\ \E i \in DOMAIN plan.steps :
              plan.steps[i].step_id = ResultFailedStep(executor_output)
        /\ "error" \in DOMAIN executor_output.metadata
        /\ executor_output.metadata.error /= <<>>


\* execute_plan has returned although the step it was at has no result: a
\* fault was raised while that step was resolved or its tool was called
FaultReturned == ExecuteReturned /\ Len(step_results) < step_index

\* Resolving the dependencies of the step the run was at raises
ResolutionRaises ==
    /\ StepDependencies(plan.steps[step_index]) /= <<>>
    /\ resolve_dependencies(dependency_state,
                            plan.steps[step_index].tool_args,
                            StepDependencies(plan.steps[step_index])).raised

\* C21: execute_plan always returns a result. After a fault the result is
\* failed, its error_type is dependency_resolution when resolving the
\* step's dependencies raised and unexpected otherwise, and its
\* step_results are exactly the results of the steps before the faulting
\* one, all of them successful.
C21_FaultsCaptured ==
    /\ ExecuteReturned =>
          executor_output.execution_status
              \in {"completed", "failed", "skipped"}
    /\ FaultReturned =>
          /\ executor_output.execution_status = "failed"
          /\ "error_type" \in DOMAIN executor_output.metadata
          /\ executor_output.metadata.error_type =
                IF ResolutionRaises THEN "dependency_resolution"
                ELSE "unexpected"
          /\ executor_output.step_results = step_results
          /\ executor_output.executed_steps = step_index - 1
          /\ Len(step_results) = step_index - 1
          /\ \A i \in DOMAIN step_results :
                step_results[i].step_id = i /\ step_results[i].success

\* Step 1 finished and resolving step 2's dependency raised
C21_Witness ==
    /\ FaultReturned /\ step_index = 2
    /\ executor_output.metadata.error_type = "dependency_resolution"
    /\ Len(executor_output.step_results) = 1


\* ------------------------------------------------------------------------
\* Properties of the quota discipline
\* ------------------------------------------------------------------------
\* C22: every call of the planning collaborator, for the first plan or for
\* a repair, is made in a step that found used_calls below call_limit; no
\* call is made once the quota check has failed.
C22_QuotaCheckBeforePlanning ==
    [][gateway_calls' /= gateway_calls => used_calls < call_limit]_vars

\* The collaborator is being called for a repair, after the first plan
\* used one call of a quota that had room for more
C22_Witness ==
    /\ pc = "replan"
    /\ gateway_calls = 2
    /\ used_calls = 1
    /\ used_calls < call_limit

\* C23 as stated: until the responder is called, the recorded used_calls
\* equals the number of planning-collaborator calls that returned a plan,
\* repair calls whose plan was then rejected included.
C23_QuotaRecordingAsStated ==
    pc \in {"plan", "validate", "execute", "step", "tool", "recover",
            "replan", "respond"} =>
        used_calls = gateway_returns

\* C24 as stated: when a replan is due and the quota check fails, the
\* Recovery Loop is left by QuotaExceeded, so that run_agent returns the
\* quota message at once, and not by an ordinary return of the failed result.
C24_QuotaExhaustionAsStated ==
    [][(/\ pc = "recover" /\ Failed /\ failure_type = STRUCTURAL
        /\ ReplanAllowed(replans, max_replans)
        /\ ~(used_calls < call_limit)) =>
            (pc' = "done" /\ response' = QUOTA_MESSAGE)]_vars


\* ------------------------------------------------------------------------
\* Properties of the Plan Validator called on its own
\* ------------------------------------------------------------------------
\* C25 as stated: whenever validate_plan does not accept the plan, what
\* leaves it is a PlannerValidationError with a category, also for a plan
\* with a dependency record that lacks from_field, from_step or to_arg.
C25_TypedFailuresAsStated ==
    (Done("validate_plan") /\ ~call_result.value.valid) =>
        /\ call_result.value.error.exception = "PlannerValidationError"
        /\ call_result.value.error.category /= NULL


\* The k-th check of validate_plan
CheckOutcome(k, p, q) ==
    CASE k = 1 -> _validate_schema(p)
      [] k = 2 -> _validate_fail_reason(p)
      [] k = 3 -> _validate_tools(p)
      [] k = 4 -> _validate_dependencies(p)
      [] k = 5 -> _validate_no_cycles(p)
      [] k = 6 -> _validate_query_intent(p, q)
      [] k = 7 -> _validate_datetime_usage(p, q)
      [] OTHER -> _validate_pipelines(p)

\* Some step has an unknown tool, or arguments its tool's shape refuses
ShapeViolated(p) ==
    \E i \in DOMAIN p.steps :
        \/ p.steps[i].tool_name \notin TOOL_REGISTRY
        \/ ~model_validate(p.steps[i].tool_name, p.steps[i].tool_args)

InlineViolated(p) ==
    \E i \in DOMAIN p.steps :
        Raised(_validate_no_inline_dependencies(p.steps[i]))

\* C26 as stated: for a plan that passes the schema and fail-reason checks,
\* a violation of tool existence or argument shape is reported (TOOL_ERROR
\* or SCHEMA_ERROR) before an inline dependency is (DEPENDENCY_ERROR).
C26_ValidationOrderAsStated ==
    (/\ Done("validate_plan")
     /\ ~Raised(_validate_schema(call.plan))
     /\ ~Raised(_validate_fail_reason(call.plan))
     /\ ShapeViolated(call.plan)) =>
        call_result.value.error.category \in {"TOOL_ERROR", "SCHEMA_ERROR"}

\* C26: validate_plan reports the first failure of the checks run in the
\* order schema, fail-reason, tool checks, dependency validation, cycle
\* detection, query intent, datetime usage, pipelines. The tool checks go
\* through the steps in plan order and, for each step, look at the tool's
\* existence first, then at inline dependencies, then at the argument
\* shape: the failure reported is that of the first step with any of them.
C26_ValidationOrder ==
    Done("validate_plan") =>
        LET p == call.plan
            v == call_result.value
            failing == {k \in 1..8 :
                          /\ \A j \in 1..(k - 1) :
                                ~Raised(CheckOutcome(j, p, call.user_query))
                          /\ Raised(CheckOutcome(k, p, call.user_query))}
            tools == {i \in DOMAIN p.steps :
                          \/ p.steps[i].tool_name \notin TOOL_REGISTRY
                          \/ Raised(_validate_no_inline_dependencies(
                                        p.steps[i]))}
        IN  /\ v.valid <=> failing = {}
            /\ \A k \in failing :
                  v.error = CheckOutcome(k, p, call.user_query)
            /\ (3 \in failing /\ tools /= {}) =>
                  LET first == p.steps[Min(tools)]
                  IN  \/ v.error.step_id < first.step_id
                      \/ /\ v.error.step_id = first.step_id
                         /\ v.error.category =
                              IF first.tool_name \notin TOOL_REGISTRY
                                  THEN "TOOL_ERROR"
                                  ELSE "DEPENDENCY_ERROR"

\* A plan whose first step carries an inline dependency, which its tool's
\* shape refuses too, and whose second step names an unknown tool, was
\* rejected for the inline dependency of step 1
C26_Witness ==
    /\ Done("validate_plan")
    /\ Len(call.plan.steps) = 2
    /\ InlineViolated(call.plan) /\ ShapeViolated(call.plan)
    /\ call.plan.steps[2].tool_name \notin TOOL_REGISTRY
    /\ call_result.value.error.category = "DEPENDENCY_ERROR"
    /\ call_result.value.error.step_id = 1


\* ------------------------------------------------------------------------
\* Properties of a request: validation before execution
\* ------------------------------------------------------------------------
\* C27: whenever execute_plan is called, for the first plan, for a retry
\* or for a repaired plan, the plan it is given is one validate_plan
\* accepts; a request whose first plan was rejected ends without any
\* Executor run, and after a rejected repair no further run is made.
C27_NoUnvalidatedPlanExecuted ==
    [][/\ exec_runs' /= exec_runs =>
            /\ validate_plan(plan, USER_INPUT).valid
            /\ plan \notin RejectedPlans
       /\ (pc = "validate" /\ planner_output \in RejectedPlans) =>
            (pc' = "done" /\ exec_runs' = 0 /\ plan' = NO_PLAN)
       /\ (pc = "replan" /\ plan' = plan) => exec_runs' = exec_runs]_vars

\* The second Executor run of a request works on a repaired plan of two
\* steps
C27_Witness ==
    /\ pc = "step"
    /\ exec_runs = 2 /\ repairs = 1
    /\ Len(plan.steps) = 2
    /\ validate_plan(plan, USER_INPUT).valid


\* ------------------------------------------------------------------------
\* The tool runner (app/runner.py), under UnitSpec
\* ------------------------------------------------------------------------
\* run_tool reached the retry loop: the tool is registered and the schema
\* accepted the arguments
HandlerInvoked ==
    /\ Done("run_tool")
    /\ call.tool_name \in TOOL_REGISTRY
    /\ call.input_valid

DeclaredFailure(outcome) ==
    /\ outcome.kind = "returns"
    /\ "success" \in DOMAIN outcome.result
    /\ outcome.result.success = FALSE
    /\ "error" \in DOMAIN outcome.result

\* C28, as the specification states it: when the handler returns a
\* structured result with success = false and an error field, run_tool
\* returns that result after exactly one invocation of the handler,
\* whatever max_retries and deterministic are.
C28_DeclaredFailureNotRetriedAsStated ==
    (HandlerInvoked /\ DeclaredFailure(call.behaviour[1])) =>
        /\ ~call_result.value.raised
        /\ call_result.value.result = call.behaviour[1].result
        /\ call_result.value.invocations = 1

\* The handler throws, or returns after the timeout, at every invocation
Faults(outcome) ==
    outcome.kind = "throws" \/ (outcome.kind = "returns" /\ outcome.slow)

AlwaysFaults(behaviour) == \A n \in DOMAIN behaviour : Faults(behaviour[n])

\* C29, as the specification states it: when the handler throws or exceeds
\* the timeout at every attempt, run_tool invokes it max_retries + 1 times
\* for a non-deterministic tool and once for a deterministic tool, and then
\* returns the failure.
C29_FaultsRetriedAsStated ==
    (HandlerInvoked /\ AlwaysFaults(call.behaviour)) =>
        /\ ~call_result.value.raised
        /\ ~call_result.value.result.success
        /\ call_result.value.invocations =
             IF call.tool_entry.deterministic THEN 1
             ELSE call.tool_entry.max_retries + 1

\* ------------------------------------------------------------------------
\* Timeouts, under Spec
\* ------------------------------------------------------------------------
\* C30: when the tool invocation of a step exceeds the tool's timeout,
\* run_tool returns a result with success = false and raises nothing, the
\* Executor returns failed with that step as failed_step_id and the timeout
\* text as error, and the Recovery Loop handles the failure as
\* classify_failure classifies that text, as it does for any other error:
\* TRANSIENT, so the step's retry counter is incremented and no replan is
\* spent.
C30_TimeoutIsToolFailure ==
    [][/\ (pc = "tool" /\ timed_out') =>
            /\ Len(step_results') = Len(step_results) + 1
            /\ ~step_results'[Len(step_results')].success
            /\ step_results'[Len(step_results')].data.error = TIMEOUT_ERROR
            /\ pc' = "recover"
            /\ executor_output'.execution_status = "failed"
            /\ executor_output'.metadata.failed_tool =
                    plan.steps[step_index].tool_name
            /\ executor_output'.metadata.failed_step_id =
                    plan.steps[step_index].step_id
            /\ executor_output'.metadata.error = TIMEOUT_ERROR
       /\ (/\ pc = "recover" /\ timed_out
           /\ executor_output.execution_status = "failed") =>
            /\ failure_type = classify_failure(TIMEOUT_ERROR, NULL)
            /\ failure_type = TRANSIENT
            /\ retries' =
                 BumpRetries(retries, ResultFailedStep(executor_output))
            /\ replans' = replans
            /\ plan' = plan
            /\ pc' \in {"execute", "respond"}]_vars

\* The second step of a plan timed out and the Executor returned
C30_Witness ==
    /\ pc = "recover"
    /\ timed_out
    /\ Len(plan.steps) = 2
    /\ Len(step_results) = 2
    /\ step_results[1].success
    /\ ~step_results[2].success
    /\ executor_output.execution_status = "failed"
    /\ executor_output.metadata.failed_step_id = 2
    /\ executor_output.metadata.error = TIMEOUT_ERROR

\* ------------------------------------------------------------------------
\* The ExecutionResult after execute_plan returned it, under Spec
\* ------------------------------------------------------------------------
\* run_with_recovery or run_agent holds a result that execute_plan returned
ResultHeld ==
    /\ pc \in {"recover", "replan", "respond", "done"}
    /\ exec_runs > 0

COST_KEYS == {"planner_cost", "responder_cost", "run_cost"}

\* C31, as the specification states it: from the return of execute_plan to
\* the end of the request, the ExecutionResult stays exactly as returned.
C31_ResultNeverMutatedAsStated ==
    [][ResultHeld => executor_output' = executor_output]_vars

\* C31, amended: a returned ExecutionResult keeps its status, step_results
\* and executed_steps and every metadata entry it was returned with; the
\* only writes are the cost entries planner_cost, responder_cost and
\* run_cost that run_agent adds to its metadata.
C31_ResultNeverMutated ==
    [][ResultHeld =>
        /\ executor_output'.execution_status =
                executor_output.execution_status
        /\ executor_output'.step_results = executor_output.step_results
        /\ executor_output'.executed_steps = executor_output.executed_steps
        /\ DOMAIN executor_output.metadata
                \subseteq DOMAIN executor_output'.metadata
        /\ \A k \in DOMAIN executor_output.metadata :
                executor_output'.metadata[k] = executor_output.metadata[k]
        /\ DOMAIN executor_output'.metadata
                \subseteq DOMAIN executor_output.metadata \cup COST_KEYS]_vars

\* run_agent ended on a failed result that carries both the Executor's
\* entries and the cost entries
C31_Witness ==
    /\ pc = "done"
    /\ exec_runs > 0
    /\ executor_output.execution_status = "failed"
    /\ {"error", "failed_step_id", "planner_cost", "run_cost"}
            \subseteq DOMAIN executor_output.metadata

\* ------------------------------------------------------------------------
\* Invariants of accepted plans, under UnitSpec
\* ------------------------------------------------------------------------
\* validate_plan returned and accepted the plan it was called on
PlanAccepted == Done("validate_plan") /\ call_result.value.valid

StepIds(p) == {p.steps[j].step_id : j \in DOMAIN p.steps}

\* from_field, from_step and to_arg of one dependency of a step are as the
\* Data Model requires
WellFormedDependency(p, step, dep) ==
    /\ {"from_field", "from_step", "to_arg"} \subseteq DOMAIN dep
    /\ dep.from_field = "data.value"
    /\ dep.from_step \in StepIds(p)
    /\ dep.from_step < step.step_id
    /\ ToArgRoot(dep.to_arg) \in DOMAIN step.tool_args

\* C32: in every plan validate_plan accepts, each dependency of each step
\* has from_field "data.value", a from_step that is the id of a step of the
\* plan and smaller than the owning step's id, and a to_arg whose root is a
\* key of the owning step's tool_args; step 1 has no dependencies.
C32_DependencyInvariants ==
    PlanAccepted =>
        \A i \in DOMAIN call.plan.steps :
            LET step == call.plan.steps[i]
            IN  /\ \A k \in DOMAIN StepDependencies(step) :
                      WellFormedDependency(call.plan, step,
                                           StepDependencies(step)[k])
                /\ step.step_id = 1 => StepDependencies(step) = <<>>

\* An accepted plan whose second step depends on the first through a
\* dotted to_arg
C32_Witness ==
    /\ PlanAccepted
    /\ Len(call.plan.steps) = 2
    /\ StepDependencies(call.plan.steps[2]) /= <<>>
    /\ StepDependencies(call.plan.steps[2])[1].to_arg = "base_datetime.iso"

\* C33: every plan validate_plan accepts with status impossible has empty
\* steps and a fail_reason, and every accepted plan with status possible
\* has at least one step and no fail_reason.
C33_StatusInvariant ==
    PlanAccepted =>
        /\ call.plan.plan_status \in {"possible", "impossible"}
        /\ call.plan.plan_status = "impossible" =>
              /\ call.plan.steps = <<>>
              /\ call.plan.fail_reason /= NULL
        /\ call.plan.plan_status = "possible" =>
              /\ call.plan.steps /= <<>>
              /\ call.plan.fail_reason = NULL

\* An impossible plan was accepted
C33_Witness ==
    /\ PlanAccepted
    /\ call.plan.plan_status = "impossible"
    /\ call.plan.fail_reason = "scope_mismatch"

\* ------------------------------------------------------------------------
\* Delay between the runs of a retry sequence, under Spec
\* ------------------------------------------------------------------------
\* C34, as the specification states it: the Recovery Loop waits between an
\* Executor run that failed transiently and the retry run that follows it
\* (a delay that grows with the retries already made). While no replan was
\* made every run after the first is a retry run, so each of them has a
\* wait before it.
C34_DelayBeforeRetryAsStated ==
    (replans = 0 /\ exec_runs >= 2) => sleeps >= exec_runs - 1

\* ------------------------------------------------------------------------
\* executed_steps of a returned result, under Spec
\* ------------------------------------------------------------------------
SuccessfulEntries(result) ==
    {i \in DOMAIN result.step_results : result.step_results[i].success}

\* C35, as the specification states it: in every ExecutionResult that
\* execute_plan returns, executed_steps is the number of entries of
\* step_results whose success is true, also when the run stopped at a
\* failing step.
C35_ExecutedStepsAsStated ==
    ExecuteReturned =>
        executor_output.executed_steps =
            Cardinality(SuccessfulEntries(executor_output))

\* ------------------------------------------------------------------------
\* The pair run_with_recovery returns, under Spec
\* ------------------------------------------------------------------------
\* C36: the plan run_with_recovery returns is the plan whose Executor run
\* produced the result it returns. The current plan is replaced only in a
\* step that leads to an Executor run of the new plan; from there the next
\* step is that run, which replaces the result; and no step of a run, of
\* the recovery decision or of a failed replan touches the plan, so the
\* loop cannot return between a change of plan and the run of that plan.
C36_ResultAndPlanPaired ==
    [][/\ plan' /= plan => pc' = "execute"
       /\ pc = "execute" =>
            /\ exec_runs' = exec_runs + 1
            /\ plan' = plan
            /\ pc' \in {"step", "recover"}
       /\ pc' = "respond" => plan' = plan
       /\ (pc = "replan" /\ pc' = "respond") =>
            executor_output' = executor_output]_vars

\* The loop returned after a repaired plan was rejected: the plan is the
\* one that was run
C36_Witness ==
    /\ pc = "respond"
    /\ replans = 1
    /\ repairs = 0
    /\ gateway_returns = 2
    /\ exec_runs = 1
    /\ Len(executor_output.step_results) = Len(plan.steps)
    /\ Failed

\* ------------------------------------------------------------------------
\* The retry counters of a request, under Spec
\* ------------------------------------------------------------------------
\* C37: the retry counter of a step id lasts for the whole
\* run_with_recovery call: no step removes a counter or lowers it, across
\* successful steps, retries and replans alike, and every retry run is
\* started by a step that raises the counter of the failed id by one to a
\* value of at most max_retries_per_step. So at most max_retries_per_step
\* retry runs are started for an id, and a step of a repaired plan that
\* reuses an id goes on from the count already reached.
C37_RetryCountersKept ==
    [][/\ DOMAIN retries \subseteq DOMAIN retries'
       /\ \A s \in DOMAIN retries : retries'[s] >= retries[s]
       /\ (pc = "recover" /\ pc' = "execute") =>
            LET s == ResultFailedStep(executor_output)
            IN  /\ s \in DOMAIN retries'
                /\ retries'[s] = DictGet(retries, s, 0) + 1
                /\ retries'[s] <= max_retries]_vars

\* A repaired plan is about to run while a retry is already counted for
\* step id 1
C37_Witness ==
    /\ pc = "execute"
    /\ repairs = 1
    /\ exec_runs = 2
    /\ 1 \in DOMAIN retries
    /\ retries[1] = 1

\* ------------------------------------------------------------------------
\* The cycle check, under UnitSpec
\* ------------------------------------------------------------------------
\* The plan of the call passes every check validate_plan runs before
\* _validate_no_cycles
ReachesCycleCheck ==
    /\ Done("validate_plan")
    /\ PassesEarlierChecks(call.plan)
    /\ ~Raised(_validate_dependencies(call.plan))

\* C38: every plan that passes schema and dependency validation has an
\* acyclic dependency graph, so _validate_no_cycles reports no cycle on any
\* plan that reaches it.
C38_CycleCheckNeverFires ==
    ReachesCycleCheck =>
        /\ ~HasCycle(call.plan)
        /\ ~Raised(_validate_no_cycles(call.plan))

\* A plan with a dependency edge reached the cycle check
C38_Witness ==
    /\ ReachesCycleCheck
    /\ Edges(call.plan) /= {}
    /\ call.calls = 1

\* ------------------------------------------------------------------------
\* Resolution in the runs of accepted plans, under Spec
\* ------------------------------------------------------------------------
\* Every tool result of the run so far follows the Tool Contract: it
\* contains data.value
ContractFollowed ==
    \A i \in DOMAIN step_results :
        /\ "data" \in DOMAIN step_results[i].data
        /\ "value" \in DOMAIN step_results[i].data["data"]

\* C39: in the runs of accepted plans, whenever a step's dependencies are
\* resolved every from_step they name is stored in the run's Dependency
\* State, and if every tool result contains data.value no run ends with
\* error_type dependency_resolution.
C39_ResolutionSafe ==
    /\ pc = "step" =>
          \A k \in DOMAIN StepDependencies(plan.steps[step_index]) :
              StepDependencies(plan.steps[step_index])[k].from_step
                  \in DOMAIN dependency_state._state
    /\ (ExecuteReturned /\ ContractFollowed) =>
          DictGet(executor_output.metadata, "error_type", NULL)
              /= "dependency_resolution"

\* The second step of a plan got the value of the first step as argument
C39_Witness ==
    /\ pc = "tool"
    /\ step_index = 2
    /\ StepDependencies(plan.steps[2]) /= <<>>
    /\ ContractFollowed
    /\ resolved_args["base_datetime"] = "2026-01-29"
    /\ plan.steps[2].tool_args["base_datetime"] = NULL

\* C40 (as stated): in the runs of accepted plans the resolved arguments of
\* a step have exactly the keys of the step's tool_args, also when a to_arg
\* is a dotted path whose root is the existing key.
C40_ResolvedKeysAsStated ==
    (pc = "tool" /\ StepDependencies(plan.steps[step_index]) /= <<>>) =>
        DOMAIN resolved_args = DOMAIN plan.steps[step_index].tool_args
====
